---- MODULE Spec2Model ----
(***************************************************************************)
(* esp32-usb-cam-rtsp                                                      *)
(*                                                                         *)
(* MAVLink telemetry bridge (src/esp32-usb-cam-rtsp/src/mavlink_telemetry.c):*)
(*   - the byte-wise framer mavlink_parse_char with its CRC-16/MCRF4XX,    *)
(*   - the serial pump uart_rx_task and the network pump udp_rx_task,      *)
(*   - the GCS peer table with its stale-peer sweep.                       *)
(* Frame relay (src/esp32-usb-cam-rtsp/esp32-usb-cam-rtsp/src/main.c):     *)
(*   - camera_task, the one-slot frame queue, stream_sender_task.          *)
(* MJPEG server (src/esp32-usb-cam-rtsp/esp32-usb-cam-rtsp/src/rtsp_server.c):*)
(*   - rtsp_server_send_frame, accept_task, client_stream_task.            *)
(* RTSP server (src/esp32-usb-cam-rtsp/src/rtsp_server.c):                 *)
(*   - rtsp_server_task and the request handlers, rtsp_server_send_frame.  *)
(***************************************************************************)
EXTENDS Integers, Sequences, FiniteSets, TLC

VARIABLES
    parser,        \* s_mavlink.parser
    msg,           \* the caller's mavlink_message_t that mavlink_parse_char fills
    raw_packet,    \* uart_rx_task: raw_packet[0 .. raw_packet_len-1]
    gcs_clients,   \* s_mavlink.gcs_clients[MAVLINK_MAX_GCS_CLIENTS]
    stats,         \* s_mavlink.stats (the counters the pumps keep)
    state,         \* s_mavlink.state
    heartbeat,     \* s_mavlink.heartbeat
    last_cleanup,  \* uart_rx_task: static uint32_t last_cleanup
    now_ms,        \* the clock: esp_timer_get_time() / 1000
    udp_out,       \* every sendto() of forward_to_gcs, in call order
    uart_out,      \* every uart_write_bytes() of forward_to_pixhawk, in call order
    frames_in,     \* framer harness: the frames whose bytes are fed
    pending,       \* framer harness: the bytes not fed yet
    rx_trace,      \* every byte handed to mavlink_parse_char so far
    results,       \* the framing result of each of those bytes
    delivered,     \* the messages copied out with MAVLINK_FRAMING_OK, in order
    crc_extra_cnt, \* crc_extra accumulations since the last accepted start marker
    pkt_start,     \* index in rx_trace of the last accepted start marker
    ok_log,        \* per MAVLINK_FRAMING_OK of the pump: frame bytes and peers then active
    reads,         \* number of non-empty uart_read_bytes() so far
    senders,       \* the endpoint of each datagram received so far
    pumps          \* s_mavlink.tasks_running, and where the two pump tasks are

bridgeVars ==
    <<parser, msg, raw_packet, gcs_clients, stats, state, heartbeat,
      last_cleanup, now_ms, udp_out, uart_out, frames_in, pending, rx_trace,
      results, delivered, crc_extra_cnt, pkt_start, ok_log, reads, senders,
      pumps>>

VARIABLES
    s_frame_queue,     \* main.c: the queue of length 1 of frame_msg_t
    s_frame_buffer,    \* main.c: the bytes s_frame_buffer points to
    s_frame_mutex,     \* main.c: the task that holds s_frame_mutex
    s_frames_captured, \* main.c: counter of captures
    s_frames_sent,     \* main.c: counter of frames handed to the server
    camera,            \* camera_task: position, fb, seq, msg
    stream_tx,         \* stream_sender_task: position, msg
    relay_log          \* what the two tasks did to the queue and the server, in order

relayVars ==
    <<s_frame_queue, s_frame_buffer, s_frame_mutex, s_frames_captured,
      s_frames_sent, camera, stream_tx, relay_log>>

VARIABLES
    s_server,          \* MJPEG rtsp_server.c: s_server
    strm,              \* client_stream_task of each slot: position, last_seq, frame_size
    net                \* every accepted connection: its socket and what was written to it

mjpegVars == <<s_server, strm, net>>

VARIABLES
    s_rtsp,            \* RTSP rtsp_server.c: s_rtsp
    rtsp_srv,          \* rtsp_server_task: position in its loop
    rtsp_net           \* every RTSP connection: responses, packets, states seen

rtspVars == <<s_rtsp, rtsp_srv, rtsp_net>>

VARIABLES
    s_usb_cam,         \* usb_camera.c: frames, current_frame_idx, frame_queue,
                       \* and the number of frames stored so far
    usb_frames         \* the frames frame_callback was called with, in order

usbVars == <<s_usb_cam, usb_frames>>

VARIABLES
    clients_mutex,     \* mavlink_telemetry.c: the task that holds s_mavlink.clients_mutex
    sweep,             \* uart_rx_task inside cleanup_stale_gcs_clients: position, now, i
    udp_rx,            \* udp_rx_task inside one pass of its loop: position, src_addr
    touches,           \* who touched the peer table, in which function, holding the mutex or not
    rtp_tx             \* src/rtsp_server.c: the caller of rtsp_server_send_frame between
                       \* xSemaphoreTake and xSemaphoreGive of s_rtsp.clients_mutex

taskVars == <<clients_mutex, sweep, udp_rx, touches, rtp_tx>>

vars == <<bridgeVars, relayVars, mjpegVars, rtspVars, usbVars, taskVars>>

-----------------------------------------------------------------------------
(* Bounds of the model *)

MaxLen == 2          \* longest payload of a generated frame
MaxFrames == 2       \* frames fed back to back to the framer

-----------------------------------------------------------------------------
(* Program constants *)

MAVLINK_STX_V1 == 254
MAVLINK_STX_V2 == 253
MAVLINK_MAX_PAYLOAD_LEN == 255
MAVLINK_MAX_PACKET_LEN == 280
MAVLINK_MAX_GCS_CLIENTS == 4

MAVLINK_PARSE_STATE_IDLE == "IDLE"
MAVLINK_PARSE_STATE_GOT_STX == "GOT_STX"
MAVLINK_PARSE_STATE_GOT_LENGTH == "GOT_LENGTH"
MAVLINK_PARSE_STATE_GOT_INCOMPAT_FLAGS == "GOT_INCOMPAT_FLAGS"
MAVLINK_PARSE_STATE_GOT_COMPAT_FLAGS == "GOT_COMPAT_FLAGS"
MAVLINK_PARSE_STATE_GOT_SEQ == "GOT_SEQ"
MAVLINK_PARSE_STATE_GOT_SYSID == "GOT_SYSID"
MAVLINK_PARSE_STATE_GOT_COMPID == "GOT_COMPID"
MAVLINK_PARSE_STATE_GOT_MSGID1 == "GOT_MSGID1"
MAVLINK_PARSE_STATE_GOT_MSGID2 == "GOT_MSGID2"
MAVLINK_PARSE_STATE_GOT_MSGID3 == "GOT_MSGID3"
MAVLINK_PARSE_STATE_GOT_PAYLOAD == "GOT_PAYLOAD"
MAVLINK_PARSE_STATE_GOT_CRC1 == "GOT_CRC1"

MAVLINK_STATE_RUNNING == "RUNNING"
MAVLINK_STATE_PIXHAWK_CONNECTED == "PIXHAWK_CONNECTED"
MAVLINK_STATE_GCS_CONNECTED == "GCS_CONNECTED"

MAVLINK_MSG_ID_HEARTBEAT == 0

MAVLINK_FRAMING_OK == "OK"
MAVLINK_FRAMING_INCOMPLETE == "INCOMPLETE"
MAVLINK_FRAMING_BAD_CRC == "BAD_CRC"

-----------------------------------------------------------------------------
(* Fixed-width integer arithmetic of the C code *)

RECURSIVE BitXor(_, _)
BitXor(a, b) ==
    IF a = 0 THEN b
    ELSE IF b = 0 THEN a
    ELSE (((a % 2) + (b % 2)) % 2) + (2 * BitXor(a \div 2, b \div 2))

RECURSIVE BitOr(_, _)
BitOr(a, b) ==
    IF a = 0 THEN b
    ELSE IF b = 0 THEN a
    ELSE (IF (a % 2) = 1 \/ (b % 2) = 1 THEN 1 ELSE 0) + (2 * BitOr(a \div 2, b \div 2))

U8(x) == x % 256
U16(x) == x % 65536

-----------------------------------------------------------------------------
(* CRC-16/MCRF4XX *)

mavlink_crc_init == 65535

mavlink_crc_accumulate(byte, crc) ==
    LET tmp0 == BitXor(byte, crc % 256)
        tmp  == U8(BitXor(tmp0, tmp0 * 16))
    IN  U16(BitXor(BitXor(BitXor(crc \div 256, tmp * 256), tmp * 8), tmp \div 16))

\* the one element of a singleton set: The({e}) is e, evaluated once
The(S) == CHOOSE x \in S : TRUE

RECURSIVE CrcFold(_, _)
CrcFold(buffer, crc) ==
    IF buffer = <<>> THEN crc
    ELSE The({CrcFold(Tail(buffer), c) :
                 c \in {mavlink_crc_accumulate(Head(buffer), crc)}})

mavlink_crc_calculate(buffer) == CrcFold(buffer, mavlink_crc_init)

mavlink_get_crc_extra(msgid) ==
    CASE msgid = 0   -> 50
      [] msgid = 1   -> 124
      [] msgid = 2   -> 137
      [] msgid = 4   -> 237
      [] msgid = 24  -> 24
      [] msgid = 30  -> 39
      [] msgid = 33  -> 104
      [] msgid = 35  -> 244
      [] msgid = 36  -> 54
      [] msgid = 65  -> 118
      [] msgid = 74  -> 20
      [] msgid = 76  -> 152
      [] msgid = 77  -> 143
      [] msgid = 147 -> 154
      [] msgid = 253 -> 83
      [] OTHER       -> 0

-----------------------------------------------------------------------------
(* The framer *)

\* a zeroed mavlink_message_t (the signature block is never touched)
ZeroMessage ==
    [magic |-> 0, len |-> 0, incompat_flags |-> 0, compat_flags |-> 0,
     seq |-> 0, sysid |-> 0, compid |-> 0, msgid |-> 0,
     payload |-> <<>>,
     checksum |-> 0]

\* uint8_t payload[MAVLINK_MAX_PAYLOAD_LEN], zeroed at start, is kept as the
\* sequence of its entries up to the last non-zero one: entry i is PayloadGet
RECURSIVE TrimZeros(_)
TrimZeros(s) ==
    IF s # <<>> /\ s[Len(s)] = 0 THEN TrimZeros(SubSeq(s, 1, Len(s) - 1)) ELSE s

PayloadGet(pl, i) == IF i < Len(pl) THEN pl[i + 1] ELSE 0

PayloadSet(pl, i, byte) ==
    TrimZeros([k \in 1 .. (IF i + 1 > Len(pl) THEN i + 1 ELSE Len(pl)) |->
                  IF k = i + 1 THEN byte ELSE PayloadGet(pl, k - 1)])

\* mavlink_parser_init
mavlink_parser_init ==
    [state |-> MAVLINK_PARSE_STATE_IDLE, packet_idx |-> 0,
     msg |-> ZeroMessage, checksum |-> 0]

\* what one call returns: the parser after it, the caller's message after it,
\* the framing result, and how often the call mixed crc_extra into the CRC
ParseRet(p, m, r, x) == [parser |-> p, msg |-> m, result |-> r, extra |-> x]

\* the common shape of the header states: store the byte, accumulate, move on
HeaderByte(p, field, value, byte, next) ==
    [p EXCEPT !.msg = [p.msg EXCEPT ![field] = value],
              !.checksum = mavlink_crc_accumulate(byte, p.checksum),
              !.state = next]

mavlink_parse_char(p, byte, m) ==
    LET st  == p.state
        acc == mavlink_crc_accumulate(byte, p.checksum)
        v2  == p.msg.magic = MAVLINK_STX_V2
    IN
    CASE st = MAVLINK_PARSE_STATE_IDLE ->
           IF byte = MAVLINK_STX_V1 \/ byte = MAVLINK_STX_V2
           THEN ParseRet([p EXCEPT !.msg.magic = byte, !.packet_idx = 0,
                                   !.checksum = mavlink_crc_init,
                                   !.state = MAVLINK_PARSE_STATE_GOT_STX],
                         m, MAVLINK_FRAMING_INCOMPLETE, 0)
           ELSE ParseRet(p, m, MAVLINK_FRAMING_INCOMPLETE, 0)
      [] st = MAVLINK_PARSE_STATE_GOT_STX ->
           IF v2
           THEN ParseRet(HeaderByte(p, "len", byte, byte, MAVLINK_PARSE_STATE_GOT_LENGTH),
                         m, MAVLINK_FRAMING_INCOMPLETE, 0)
           ELSE ParseRet([p EXCEPT !.msg.len = byte, !.msg.incompat_flags = 0,
                                   !.msg.compat_flags = 0, !.checksum = acc,
                                   !.state = MAVLINK_PARSE_STATE_GOT_COMPAT_FLAGS],
                         m, MAVLINK_FRAMING_INCOMPLETE, 0)
      [] st = MAVLINK_PARSE_STATE_GOT_LENGTH ->
           ParseRet(HeaderByte(p, "incompat_flags", byte, byte,
                               MAVLINK_PARSE_STATE_GOT_INCOMPAT_FLAGS),
                    m, MAVLINK_FRAMING_INCOMPLETE, 0)
      [] st = MAVLINK_PARSE_STATE_GOT_INCOMPAT_FLAGS ->
           ParseRet(HeaderByte(p, "compat_flags", byte, byte,
                               MAVLINK_PARSE_STATE_GOT_COMPAT_FLAGS),
                    m, MAVLINK_FRAMING_INCOMPLETE, 0)
      [] st = MAVLINK_PARSE_STATE_GOT_COMPAT_FLAGS ->
           ParseRet(HeaderByte(p, "seq", byte, byte, MAVLINK_PARSE_STATE_GOT_SEQ),
                    m, MAVLINK_FRAMING_INCOMPLETE, 0)
      [] st = MAVLINK_PARSE_STATE_GOT_SEQ ->
           ParseRet(HeaderByte(p, "sysid", byte, byte, MAVLINK_PARSE_STATE_GOT_SYSID),
                    m, MAVLINK_FRAMING_INCOMPLETE, 0)
      [] st = MAVLINK_PARSE_STATE_GOT_SYSID ->
           ParseRet(HeaderByte(p, "compid", byte, byte,
                               IF v2 THEN MAVLINK_PARSE_STATE_GOT_COMPID
                                     ELSE MAVLINK_PARSE_STATE_GOT_MSGID3),
                    m, MAVLINK_FRAMING_INCOMPLETE, 0)
      [] st = MAVLINK_PARSE_STATE_GOT_COMPID ->
           ParseRet(HeaderByte(p, "msgid", byte, byte, MAVLINK_PARSE_STATE_GOT_MSGID1),
                    m, MAVLINK_FRAMING_INCOMPLETE, 0)
      [] st = MAVLINK_PARSE_STATE_GOT_MSGID1 ->
           ParseRet(HeaderByte(p, "msgid", BitOr(p.msg.msgid, byte * 256), byte,
                               MAVLINK_PARSE_STATE_GOT_MSGID2),
                    m, MAVLINK_FRAMING_INCOMPLETE, 0)
      [] st = MAVLINK_PARSE_STATE_GOT_MSGID2 ->
           ParseRet(HeaderByte(p, "msgid", BitOr(p.msg.msgid, byte * 65536), byte,
                               MAVLINK_PARSE_STATE_GOT_MSGID3),
                    m, MAVLINK_FRAMING_INCOMPLETE, 0)
      [] st = MAVLINK_PARSE_STATE_GOT_MSGID3 ->
           IF ~v2
           THEN \* v1: this byte is the message ID; payload or checksum comes next
                ParseRet([p EXCEPT !.msg.msgid = byte, !.checksum = acc,
                                   !.packet_idx = 0,
                                   !.state = MAVLINK_PARSE_STATE_GOT_PAYLOAD],
                         m, MAVLINK_FRAMING_INCOMPLETE, 0)
           ELSE IF p.msg.len > 0
           THEN \* v2: the byte is stored at payload[0], whatever came before
                ParseRet([p EXCEPT !.msg.payload = PayloadSet(p.msg.payload, 0, byte),
                                   !.checksum = acc,
                                   !.packet_idx = 1,
                                   !.state = IF 1 >= p.msg.len
                                             THEN MAVLINK_PARSE_STATE_GOT_PAYLOAD
                                             ELSE MAVLINK_PARSE_STATE_GOT_MSGID3],
                         m, MAVLINK_FRAMING_INCOMPLETE, 0)
           ELSE \* v2, empty payload: the byte is consumed and dropped
                ParseRet([p EXCEPT !.packet_idx = 0,
                                   !.state = MAVLINK_PARSE_STATE_GOT_PAYLOAD],
                         m, MAVLINK_FRAMING_INCOMPLETE, 0)
      [] st = MAVLINK_PARSE_STATE_GOT_PAYLOAD ->
           IF p.packet_idx < p.msg.len
           THEN LET idx == U8(p.packet_idx + 1)
                    last == idx >= p.msg.len
                IN  ParseRet([p EXCEPT !.msg.payload =
                                           PayloadSet(p.msg.payload, p.packet_idx, byte),
                                       !.packet_idx = idx,
                                       !.checksum =
                                           IF last
                                           THEN mavlink_crc_accumulate(
                                                    mavlink_get_crc_extra(p.msg.msgid), acc)
                                           ELSE acc],
                             m, MAVLINK_FRAMING_INCOMPLETE, IF last THEN 1 ELSE 0)
           ELSE ParseRet([p EXCEPT !.msg.checksum = byte,
                                   !.state = MAVLINK_PARSE_STATE_GOT_CRC1],
                         m, MAVLINK_FRAMING_INCOMPLETE, 0)
      [] st = MAVLINK_PARSE_STATE_GOT_CRC1 ->
           LET got == U16(BitOr(p.msg.checksum, byte * 256))
               q   == [p EXCEPT !.msg.checksum = got,
                                !.state = MAVLINK_PARSE_STATE_IDLE]
           IN  IF got = p.checksum
               THEN ParseRet(q, q.msg, MAVLINK_FRAMING_OK, 0)
               ELSE ParseRet(q, m, MAVLINK_FRAMING_BAD_CRC, 0)
      [] OTHER ->
           ParseRet([p EXCEPT !.state = MAVLINK_PARSE_STATE_IDLE],
                    m, MAVLINK_FRAMING_INCOMPLETE, 0)

-----------------------------------------------------------------------------
(* The GCS peer table and the bridge state after mavlink_telemetry_init *)

NoAddr == [ip |-> 0, port |-> 0]

Slots == 0 .. MAVLINK_MAX_GCS_CLIENTS - 1

InitClients ==
    [i \in Slots |->
        [active |-> FALSE, addr |-> NoAddr, last_seen |-> 0,
         messages_sent |-> 0, messages_received |-> 0]]

\* the counters of mavlink_stats_t the pumps' decisions and the peer table touch
\* (the byte totals uart_rx_bytes, udp_rx_bytes, ... are sums nothing reads)
InitStats ==
    [parse_errors |-> 0, gcs_clients |-> 0,
     mavlink_messages_rx |-> 0, mavlink_messages_tx |-> 0,
     pixhawk_system_id |-> 0, pixhawk_component_id |-> 0]

\* mavlink_heartbeat_info_t, zeroed; the uint32_t custom_mode is kept as its
\* low and high 16 bits
InitHeartbeat ==
    [system_id |-> 0, component_id |-> 0, type |-> 0, autopilot |-> 0,
     base_mode |-> 0, custom_mode |-> [lo16 |-> 0, hi16 |-> 0],
     system_status |-> 0,
     last_heartbeat_time |-> 0]

\* the bridge after mavlink_telemetry_init and mavlink_telemetry_start
BridgeInit ==
    /\ parser = mavlink_parser_init
    /\ msg = ZeroMessage
    /\ raw_packet = <<>>
    /\ gcs_clients = InitClients
    /\ stats = InitStats
    /\ state = MAVLINK_STATE_RUNNING
    /\ heartbeat = InitHeartbeat
    /\ last_cleanup = 0
    /\ now_ms = 0
    /\ udp_out = <<>>
    /\ uart_out = <<>>
    /\ rx_trace = <<>>
    /\ results = <<>>
    /\ delivered = <<>>
    /\ crc_extra_cnt = 0
    /\ pkt_start = 0
    /\ ok_log = <<>>
    /\ reads = 0
    /\ senders = <<>>
    /\ pumps = [tasks_running |-> TRUE, uart_rx_task |-> "loop", udp_rx_task |-> "loop"]
    /\ clients_mutex = "none"
    /\ sweep = [pc |-> "loop", now |-> 0, tick |-> 0, i |-> 0, count |-> 0]
    /\ udp_rx = [pc |-> "recv", src_addr |-> NoAddr, client |-> -1, count |-> 0]
    /\ touches = {}
    /\ rtp_tx = [pc |-> "idle", i |-> 0, size |-> 0, remaining |-> 0, offset |-> 0,
                 frames |-> 0, sent |-> <<>>]

-----------------------------------------------------------------------------
(* Frame relay, MJPEG server and RTSP server: constants and initial state *)

MAX_CLIENTS == 4
RTSP_MAX_CLIENTS == 4

\* the capacities of the two frame buffers, scaled down from 100 KB
s_frame_buffer_size == 2
frame_buf_capacity == 2

\* frame_msg_t without its data pointer, which always is s_frame_buffer
NoMsg == [size |-> 0, width |-> 0, height |-> 0, sequence |-> 0]
NoFb == [id |-> 0, len |-> 0]

\* nobody holds the mutex; a holder is [task |-> name, slot |-> index]
NoTask == [task |-> "none", slot |-> 0]
SenderTask == [task |-> "stream_tx", slot |-> 0]
CameraTask == [task |-> "camera", slot |-> 0]
StreamTask(i) == [task |-> "strm", slot |-> i]

\* main.c after app_main created the queue, the mutex, the buffer and the tasks
RelayInit ==
    /\ s_frame_queue = <<>>
    /\ s_frame_buffer = [i \in 1 .. s_frame_buffer_size |-> 0]
    /\ s_frame_mutex = NoTask
    /\ s_frames_captured = 0
    /\ s_frames_sent = 0
    /\ camera = [pc |-> "get", fb |-> NoFb, seq |-> 0, msg |-> NoMsg]
    /\ stream_tx = [pc |-> "recv", msg |-> NoMsg, waited |-> FALSE]
    /\ relay_log = <<>>

ClientSlots == 0 .. MAX_CLIENTS - 1

\* the MJPEG server after rtsp_server_init and rtsp_server_start
MjpegInit ==
    /\ s_server = [initialized |-> TRUE, running |-> TRUE,
                   clients |-> [i \in ClientSlots |->
                                   [sock |-> 0, active |-> FALSE, id |-> 0]],
                   frame_mutex |-> NoTask,
                   accept_task |-> "accept",
                   client_id_counter |-> 0,
                   frame_seq |-> 0,
                   frame_size |-> 0,
                   frame_buf |-> [i \in 1 .. frame_buf_capacity |-> 0]]
    /\ strm = [i \in ClientSlots |-> [pc |-> "none", last_seq |-> 0, frame_size |-> 0]]
    /\ net = <<>>

RTSP_CLIENT_STATE_INIT == "INIT"
RTSP_CLIENT_STATE_READY == "READY"
RTSP_CLIENT_STATE_PLAYING == "PLAYING"
RTSP_CLIENT_STATE_TEARDOWN == "TEARDOWN"
RTSP_SERVER_STATE_STOPPED == "STOPPED"
RTSP_SERVER_STATE_RUNNING == "RUNNING"

RtspSlots == 0 .. RTSP_MAX_CLIENTS - 1

\* a uint32_t as its two 16-bit halves, and x + d in 32 bits (0 <= d < 65536)
U32(hi, lo) == [hi16 |-> hi, lo16 |-> lo]

Add32(x, d) ==
    U32((x.hi16 + (x.lo16 + d) \div 65536) % 65536, (x.lo16 + d) % 65536)

\* an rtsp_client_t after the memset and the three socket fields set to -1
RtspNoClient ==
    [active |-> FALSE, rtsp_socket |-> -1, rtp_socket |-> -1, rtcp_socket |-> -1,
     rtp_port |-> 0, rtcp_port |-> 0, state |-> RTSP_CLIENT_STATE_INIT,
     session_id |-> 0, cseq |-> 0, frames_sent |-> 0,
     rtp_sequence |-> 0, rtp_timestamp |-> U32(0, 0)]

\* the RTSP server after rtsp_server_init and rtsp_server_start
RtspInit ==
    /\ s_rtsp = [initialized |-> TRUE, state |-> RTSP_SERVER_STATE_RUNNING,
                 task_running |-> TRUE,
                 clients |-> [i \in RtspSlots |-> RtspNoClient],
                 stats |-> [total_clients |-> 0, active_clients |-> 0,
                            total_frames_sent |-> 0]]
    /\ rtsp_srv = [pc |-> "select", slot |-> 0]
    /\ rtsp_net = <<>>

FRAME_BUFFER_COUNT == 3

FrameSlots == 0 .. FRAME_BUFFER_COUNT - 1

\* the USB capture module after usb_camera_init and usb_camera_start:
\* allocate_frame_buffers has set every size and sequence to 0, the queue of
\* FRAME_BUFFER_COUNT frame pointers is empty
UsbInit ==
    /\ s_usb_cam = [frames |-> [i \in FrameSlots |-> [size |-> 0, sequence |-> 0]],
                    current_frame_idx |-> 0,
                    frame_queue |-> <<>>,
                    stored |-> 0]
    /\ usb_frames = <<>>

VideoInit == RelayInit /\ MjpegInit /\ RtspInit /\ UsbInit

-----------------------------------------------------------------------------
(* Frames on the wire: mavlink_v1_header_t / mavlink_v2_header_t, payload,   *)
(* checksum low byte, checksum high byte                                     *)

PayloadBytes == {7, 254}
FlipMask == 1

\* a frame as its sender built it; flip = i > 0 means payload byte i is
\* corrupted on the wire after the checksum was computed
Frame(mg, k, id, pl, fl) ==
    [magic |-> mg, len |-> Len(pl), incompat_flags |-> 0, compat_flags |-> 0,
     seq |-> k - 1, sysid |-> k, compid |-> 190 + k, msgid |-> id,
     payload |-> pl, flip |-> fl]

\* the first frame of the input: both versions, every payload length up to
\* MaxLen, a known, a second known and (v2) a 24-bit unknown message ID
FirstFrames ==
    { Frame(mg, 1, id, pl, fl) :
        mg \in {MAVLINK_STX_V1, MAVLINK_STX_V2},
        id \in {0, 77, 76845},
        pl \in UNION { [1 .. n -> PayloadBytes] : n \in 0 .. MaxLen },
        fl \in 0 .. MaxLen }

\* the frame that may follow it: both versions, every payload length, intact
SecondFrames ==
    { Frame(mg, 2, 77, [i \in 1 .. n |-> 7], 0) :
        mg \in {MAVLINK_STX_V1, MAVLINK_STX_V2}, n \in 0 .. MaxLen }

ValidFrame(f) ==
    /\ f.flip <= f.len
    /\ f.magic = MAVLINK_STX_V1 => f.msgid < 256

HeaderBytes(f) ==
    IF f.magic = MAVLINK_STX_V2
    THEN <<f.len, f.incompat_flags, f.compat_flags, f.seq, f.sysid, f.compid,
           f.msgid % 256, (f.msgid \div 256) % 256, (f.msgid \div 65536) % 256>>
    ELSE <<f.len, f.seq, f.sysid, f.compid, f.msgid>>

FrameCrc(f) ==
    mavlink_crc_accumulate(mavlink_get_crc_extra(f.msgid),
                           mavlink_crc_calculate(HeaderBytes(f) \o f.payload))

WirePayload(f) ==
    [i \in 1 .. f.len |->
        IF i = f.flip THEN BitXor(f.payload[i], FlipMask) ELSE f.payload[i]]

EncodeFrame(f) ==
    <<f.magic>> \o HeaderBytes(f) \o WirePayload(f)
        \o <<FrameCrc(f) % 256, FrameCrc(f) \div 256>>

WireLen(f) == 1 + Len(HeaderBytes(f)) + f.len + 2

\* what a delivered message says, payload cut to its length
Summary(m, at) ==
    [magic |-> m.magic, len |-> m.len, seq |-> m.seq, sysid |-> m.sysid,
     compid |-> m.compid, msgid |-> m.msgid,
     payload |-> [i \in 1 .. m.len |-> PayloadGet(m.payload, i - 1)],
     checksum |-> m.checksum, at |-> at]

-----------------------------------------------------------------------------
(* Framer harness: one or two frames, back to back, fed a byte at a time     *)

FramerInit ==
    /\ BridgeInit
    /\ VideoInit
    /\ \E f1 \in FirstFrames :
         /\ ValidFrame(f1)
         /\ \/ frames_in = <<f1>>
            \/ /\ MaxFrames >= 2
               /\ \E f2 \in SecondFrames : frames_in = <<f1, f2>>
    /\ pending = IF Len(frames_in) = 1 THEN EncodeFrame(frames_in[1])
                 ELSE EncodeFrame(frames_in[1]) \o EncodeFrame(frames_in[2])

\* one call mavlink_parse_char(&parser, byte, &msg) on the next byte
FeedByte ==
    /\ UNCHANGED <<relayVars, mjpegVars, rtspVars, usbVars, taskVars>>
    /\ pending # <<>>
    /\ \E ret \in {mavlink_parse_char(parser, Head(pending), msg)} :
         LET byte == Head(pending)
             stx  == parser.state = MAVLINK_PARSE_STATE_IDLE
                     /\ ret.parser.state = MAVLINK_PARSE_STATE_GOT_STX
         IN  /\ parser' = ret.parser
             /\ msg' = ret.msg
             /\ pending' = Tail(pending)
             /\ rx_trace' = Append(rx_trace, byte)
             /\ results' = Append(results, ret.result)
             /\ delivered' = IF ret.result = MAVLINK_FRAMING_OK
                             THEN Append(delivered, Summary(ret.msg, Len(rx_trace) + 1))
                             ELSE delivered
             /\ crc_extra_cnt' = (IF stx THEN 0 ELSE crc_extra_cnt) + ret.extra
             /\ pkt_start' = IF stx THEN Len(rx_trace) + 1 ELSE pkt_start
    /\ UNCHANGED <<raw_packet, gcs_clients, stats, state, heartbeat, last_cleanup,
                   now_ms, udp_out, uart_out, frames_in, ok_log, reads, senders, pumps>>

FramerNext == FeedByte

SpecFramer == FramerInit /\ [][FramerNext]_vars

\* the framer on long inputs: a start marker and a length byte, then
\* StreamBytes bytes that are all 7 or all start markers
StreamBytes == 270

StreamLens == {0, 2, MAVLINK_MAX_PAYLOAD_LEN}

Streams ==
    { <<mg, len>> \o [i \in 1 .. StreamBytes |-> fill] :
        mg \in {MAVLINK_STX_V1, MAVLINK_STX_V2},
        len \in StreamLens,
        fill \in {7, MAVLINK_STX_V2} }

StreamInit ==
    /\ BridgeInit
    /\ VideoInit
    /\ frames_in = <<>>
    /\ pending \in Streams

SpecStream == StreamInit /\ [][FeedByte]_vars

-----------------------------------------------------------------------------
(* GCS peer management *)

GCS_TIMEOUT_MS == 30000
CLEANUP_PERIOD_MS == 5000
portTICK_PERIOD_MS == 10

\* a - b in unsigned arithmetic (uint32_t ticks, uint64_t milliseconds): the
\* difference when a >= b; when a < b the result wraps to 2^w - (b - a), which is
\* above every period and timeout compared with it and is kept as WrapAround
WrapAround == 2147483647
UnsignedSub(a, b) == IF a >= b THEN a - b ELSE WrapAround

pdMS_TO_TICKS(ms) == ms \div portTICK_PERIOD_MS
xTaskGetTickCount(now) == now \div portTICK_PERIOD_MS

MinOf(S) == CHOOSE x \in S : \A y \in S : x <= y

\* find_gcs_client comparing the address only and not the port
find_gcs_client_AnyPort(clients, addr) ==
    LET hits == {i \in Slots : /\ clients[i].active
                               /\ clients[i].addr.ip = addr.ip}
    IN  IF hits = {} THEN -1 ELSE MinOf(hits)

\* the slot of the active entry with this address and port, -1 for NULL
find_gcs_client(clients, addr) ==
    LET hits == {i \in Slots : /\ clients[i].active
                               /\ clients[i].addr.ip = addr.ip
                               /\ clients[i].addr.port = addr.port}
    IN  IF hits = {} THEN -1 ELSE MinOf(hits)

\* add_gcs_client giving the slot of the longest-silent peer to a new peer when
\* the table is full
add_gcs_client_Recycle(clients, st, addr, now) ==
    LET found  == find_gcs_client(clients, addr)
        free   == {i \in Slots : ~clients[i].active}
        oldest == CHOOSE i \in Slots :
                      \A j \in Slots : clients[i].last_seen <= clients[j].last_seen
        fresh  == [active |-> TRUE, addr |-> addr, last_seen |-> now,
                   messages_sent |-> 0, messages_received |-> 0]
    IN  IF found # -1
        THEN [clients |-> [clients EXCEPT ![found].last_seen = now],
              stats |-> st, client |-> found]
        ELSE IF free # {}
        THEN [clients |-> [clients EXCEPT ![MinOf(free)] = fresh],
              stats |-> [st EXCEPT !.gcs_clients = st.gcs_clients + 1],
              client |-> MinOf(free)]
        ELSE [clients |-> [clients EXCEPT ![oldest] = fresh],
              stats |-> st, client |-> oldest]

\* refresh the entry of a known peer, or take the first free slot for a new one
add_gcs_client(clients, st, addr, now) ==
    LET found == find_gcs_client(clients, addr)
        free  == {i \in Slots : ~clients[i].active}
    IN  IF found # -1
        THEN [clients |-> [clients EXCEPT ![found].last_seen = now],
              stats |-> st, client |-> found]
        ELSE IF free # {}
        THEN [clients |-> [clients EXCEPT ![MinOf(free)] =
                              [active |-> TRUE, addr |-> addr, last_seen |-> now,
                               messages_sent |-> 0, messages_received |-> 0]],
              stats |-> [st EXCEPT !.gcs_clients = st.gcs_clients + 1],
              client |-> MinOf(free)]
        ELSE [clients |-> clients, stats |-> st, client |-> -1]

\* the slots the sweep deactivates at time now
StaleSlots(clients, now) ==
    {i \in Slots : /\ clients[i].active
                   /\ UnsignedSub(now, clients[i].last_seen) > GCS_TIMEOUT_MS}

\* cleanup_stale_gcs_clients counting the stale peers out of the statistics but
\* leaving their entries active
cleanup_stale_gcs_clients_CountOnly(clients, st, now) ==
    LET n == Cardinality(StaleSlots(clients, now))
    IN  [clients |-> clients,
         stats |-> [st EXCEPT !.gcs_clients =
                                 IF st.gcs_clients > n THEN st.gcs_clients - n ELSE 0]]

cleanup_stale_gcs_clients(clients, st, now) ==
    LET stale == StaleSlots(clients, now)
        n     == Cardinality(stale)
    IN  [clients |-> [i \in Slots |->
                         IF i \in stale THEN [clients[i] EXCEPT !.active = FALSE]
                                        ELSE clients[i]],
         stats |-> [st EXCEPT !.gcs_clients =
                                 IF st.gcs_clients > n THEN st.gcs_clients - n ELSE 0]]

-----------------------------------------------------------------------------
(* Message processing and forwarding *)

\* the active slots in the order the loops visit them
RECURSIVE ActiveFrom(_, _)
ActiveFrom(clients, i) ==
    IF i >= MAVLINK_MAX_GCS_CLIENTS THEN <<>>
    ELSE (IF clients[i].active THEN <<i>> ELSE <<>>) \o ActiveFrom(clients, i + 1)

\* one sendto() per active entry (the socket is open while the pumps run; a
\* datagram of positive length is taken by the stack, so sent > 0)
forward_to_gcs(clients, out, data) ==
    LET act == ActiveFrom(clients, 0)
    IN  [clients |-> [i \in Slots |->
                         IF clients[i].active
                         THEN [clients[i] EXCEPT
                                  !.messages_sent = clients[i].messages_sent + 1]
                         ELSE clients[i]],
         udp_out |-> out \o [k \in 1 .. Len(act) |->
                                [to |-> clients[act[k]].addr, data |-> data]]]

\* uart_write_bytes() queues the whole buffer
forward_to_pixhawk(out, st, data) ==
    [uart_out |-> Append(out, data),
     stats |-> IF Len(data) > 0
               THEN [st EXCEPT !.mavlink_messages_tx = st.mavlink_messages_tx + 1]
               ELSE st]

\* mavlink_heartbeat_t laid over msg->payload
HeartbeatOf(m, now) ==
    [system_id |-> m.sysid, component_id |-> m.compid,
     type |-> PayloadGet(m.payload, 4), autopilot |-> PayloadGet(m.payload, 5),
     base_mode |-> PayloadGet(m.payload, 6),
     custom_mode |-> [lo16 |-> PayloadGet(m.payload, 0)
                                    + 256 * PayloadGet(m.payload, 1),
                      hi16 |-> PayloadGet(m.payload, 2)
                                    + 256 * PayloadGet(m.payload, 3)],
     system_status |-> PayloadGet(m.payload, 7),
     last_heartbeat_time |-> now]

\* process_mavlink_message(&msg, from_pixhawk) on the record b of bridge fields
process_mavlink_message(b, m, from_pixhawk, now) ==
    LET counted == [b EXCEPT !.stats.mavlink_messages_rx =
                                b.stats.mavlink_messages_rx + 1]
    IN  IF m.msgid = MAVLINK_MSG_ID_HEARTBEAT /\ from_pixhawk
        THEN [counted EXCEPT
                 !.heartbeat = HeartbeatOf(m, now),
                 !.stats.pixhawk_system_id = m.sysid,
                 !.stats.pixhawk_component_id = m.compid,
                 !.state = IF b.state # MAVLINK_STATE_PIXHAWK_CONNECTED
                              /\ b.state # MAVLINK_STATE_GCS_CONNECTED
                           THEN MAVLINK_STATE_PIXHAWK_CONNECTED
                           ELSE b.state]
        ELSE counted

-----------------------------------------------------------------------------
(* The serial pump *)

\* the fields one loop pass of uart_rx_task works on, as one record
PumpState ==
    [parser |-> parser, msg |-> msg, raw_packet |-> raw_packet,
     gcs_clients |-> gcs_clients, stats |-> stats, state |-> state,
     heartbeat |-> heartbeat, udp_out |-> udp_out, rx_trace |-> rx_trace,
     results |-> results, delivered |-> delivered,
     crc_extra_cnt |-> crc_extra_cnt, pkt_start |-> pkt_start, ok_log |-> ok_log]

\* RawAppend without the test for room
RawAppend_NoLimit(raw, byte) == Append(raw, byte)

\* raw_packet after the byte is appended, if there is room
RawAppend(raw, byte) ==
    IF Len(raw) < MAVLINK_MAX_PACKET_LEN THEN Append(raw, byte) ELSE raw

\* RawAfter without the reset while the parser is idle: bytes outside a frame
\* stay in raw_packet
RawAfter_KeepNoise(raw, result, pstate) ==
    IF result = MAVLINK_FRAMING_OK \/ result = MAVLINK_FRAMING_BAD_CRC
    THEN <<>> ELSE raw

\* raw_packet after the result is handled: kept only while a frame is open
RawAfter(raw, result, pstate) ==
    IF result = MAVLINK_FRAMING_OK \/ result = MAVLINK_FRAMING_BAD_CRC
       \/ pstate = MAVLINK_PARSE_STATE_IDLE
    THEN <<>> ELSE raw

\* the body of the for loop of uart_rx_task for one byte, given what
\* mavlink_parse_char returned for it
UartRxHandle(b, byte, now, ret) ==
    LET raw  == RawAppend(b.raw_packet, byte)
        stx  == b.parser.state = MAVLINK_PARSE_STATE_IDLE
                /\ ret.parser.state = MAVLINK_PARSE_STATE_GOT_STX
        at   == Len(b.rx_trace) + 1
        from == IF stx THEN at ELSE b.pkt_start
        seen == [b EXCEPT !.parser = ret.parser, !.msg = ret.msg,
                          !.raw_packet = RawAfter(raw, ret.result, ret.parser.state),
                          !.rx_trace = Append(b.rx_trace, byte),
                          !.results = Append(b.results, ret.result),
                          !.crc_extra_cnt = (IF stx THEN 0 ELSE b.crc_extra_cnt)
                                            + ret.extra,
                          !.pkt_start = from]
    IN  IF ret.result = MAVLINK_FRAMING_OK
        THEN LET done == process_mavlink_message(seen, ret.msg, TRUE, now)
                 fwd  == forward_to_gcs(b.gcs_clients, b.udp_out, raw)
                 act  == ActiveFrom(b.gcs_clients, 0)
             IN  [done EXCEPT
                     !.gcs_clients = fwd.clients,
                     !.udp_out = fwd.udp_out,
                     !.delivered = Append(b.delivered, Summary(ret.msg, at)),
                     !.ok_log = Append(b.ok_log,
                                   [frame |-> SubSeq(seen.rx_trace, from, at),
                                    time |-> now,
                                    peers |-> [k \in 1 .. Len(act) |->
                                                  b.gcs_clients[act[k]].addr]])]
        ELSE IF ret.result = MAVLINK_FRAMING_BAD_CRC
        THEN [seen EXCEPT !.stats.parse_errors = b.stats.parse_errors + 1]
        ELSE seen

UartRxByte(b, byte, now) ==
    The({UartRxHandle(b, byte, now, ret) :
            ret \in {mavlink_parse_char(b.parser, byte, b.msg)}})

RECURSIVE UartRxBytes(_, _, _)
UartRxBytes(b, bytes, now) ==
    IF bytes = <<>> THEN b
    ELSE The({UartRxBytes(nb, Tail(bytes), now) :
                 nb \in {UartRxByte(b, Head(bytes), now)}})

\* whether the periodic sweep is due at this pass
CleanupDue(now, last) ==
    UnsignedSub(xTaskGetTickCount(now), last) > pdMS_TO_TICKS(CLEANUP_PERIOD_MS)

\* one pass of the while loop of uart_rx_task: uart_read_bytes() returned chunk
\* (empty on timeout), every byte is parsed, then the sweep runs if it is due
UartRx(chunk) ==
  /\ UNCHANGED <<relayVars, mjpegVars, rtspVars, usbVars, taskVars>>
  /\ pumps.tasks_running /\ pumps.uart_rx_task = "loop"
  /\ \E b \in {UartRxBytes(PumpState, chunk, now_ms)} :
        LET due == CleanupDue(now_ms, last_cleanup)
            swp == IF due
                   THEN cleanup_stale_gcs_clients(b.gcs_clients, b.stats, now_ms)
                   ELSE [clients |-> b.gcs_clients, stats |-> b.stats]
        IN  /\ parser' = b.parser
            /\ msg' = b.msg
            /\ raw_packet' = b.raw_packet
            /\ gcs_clients' = swp.clients
            /\ stats' = swp.stats
            /\ state' = b.state
            /\ heartbeat' = b.heartbeat
            /\ udp_out' = b.udp_out
            /\ rx_trace' = b.rx_trace
            /\ results' = b.results
            /\ delivered' = b.delivered
            /\ crc_extra_cnt' = b.crc_extra_cnt
            /\ pkt_start' = b.pkt_start
            /\ ok_log' = b.ok_log
            /\ last_cleanup' = IF due THEN xTaskGetTickCount(now_ms) ELSE last_cleanup
            /\ reads' = IF chunk = <<>> THEN reads ELSE reads + 1
            /\ UNCHANGED <<now_ms, uart_out, frames_in, pending, senders, pumps>>

-----------------------------------------------------------------------------
(* The network pump *)

\* UdpRx writing to the serial port only the datagrams of tracked peers
UdpRx_TrackedOnly(src_addr, data, k) ==
    /\ UNCHANGED <<relayVars, mjpegVars, rtspVars, usbVars, taskVars>>
    /\ pumps.tasks_running /\ pumps.udp_rx_task = "loop"
    /\ Len(data) > 0
    /\ \E add \in {add_gcs_client(gcs_clients, stats, src_addr, now_ms)} :
         LET c   == add.client
             fwd == forward_to_pixhawk(uart_out, add.stats, data)
         IN  /\ gcs_clients' =
                  IF c # -1
                  THEN [add.clients EXCEPT
                           ![c].messages_received = add.clients[c].messages_received + 1]
                  ELSE add.clients
             /\ state' = IF c # -1 /\ state = MAVLINK_STATE_PIXHAWK_CONNECTED
                         THEN MAVLINK_STATE_GCS_CONNECTED ELSE state
             /\ uart_out' = IF c # -1 THEN fwd.uart_out ELSE uart_out
             /\ stats' = IF c # -1 THEN fwd.stats ELSE add.stats
             /\ senders' = Append(senders, k)
    /\ UNCHANGED <<parser, msg, raw_packet, heartbeat, last_cleanup, now_ms,
                   udp_out, frames_in, pending, rx_trace, results, delivered,
                   crc_extra_cnt, pkt_start, ok_log, reads, pumps>>

\* one pass of the while loop of udp_rx_task with recvfrom() > 0: the sender is
\* tracked if it can be, and the datagram goes to the serial port either way
UdpRx(src_addr, data, k) ==
    /\ UNCHANGED <<relayVars, mjpegVars, rtspVars, usbVars, taskVars>>
    /\ pumps.tasks_running /\ pumps.udp_rx_task = "loop"
    /\ Len(data) > 0
    /\ \E add \in {add_gcs_client(gcs_clients, stats, src_addr, now_ms)} :
         LET c   == add.client
             fwd == forward_to_pixhawk(uart_out, add.stats, data)
         IN  /\ gcs_clients' =
                  IF c # -1
                  THEN [add.clients EXCEPT
                           ![c].messages_received = add.clients[c].messages_received + 1]
                  ELSE add.clients
             /\ state' = IF c # -1 /\ state = MAVLINK_STATE_PIXHAWK_CONNECTED
                         THEN MAVLINK_STATE_GCS_CONNECTED ELSE state
             /\ uart_out' = fwd.uart_out
             /\ stats' = fwd.stats
             /\ senders' = Append(senders, k)
    /\ UNCHANGED <<parser, msg, raw_packet, heartbeat, last_cleanup, now_ms,
                   udp_out, frames_in, pending, rx_trace, results, delivered,
                   crc_extra_cnt, pkt_start, ok_log, reads, pumps>>

-----------------------------------------------------------------------------
(* The environment of the bridge *)

MaxReads == 2        \* non-empty serial reads
MaxDgrams == 5       \* datagrams received
NumEndpoints == 5    \* distinct GCS endpoints
PumpDgrams == 2      \* datagrams received while the serial pump is examined
TickMs == 10000      \* step of the clock
MaxTime == 40000     \* last value of the clock

\* endpoints 1,2 share an address, as do 3,4: they differ in the port only
Endpoint(k) == [ip |-> 10 + ((k + 1) \div 2), port |-> 14550 + (k % 2)]

\* the n-th datagram, sent by endpoint k: 1 to 3 bytes that name both
Datagram(k, n) == [i \in 1 .. 1 + (n % 3) |-> (16 * k + n) % 256]

GoodA == EncodeFrame(Frame(MAVLINK_STX_V1, 1, 0, <<7>>, 0))
GoodB == EncodeFrame(Frame(MAVLINK_STX_V1, 2, 77, <<7, 254>>, 0))
BadA  == EncodeFrame(Frame(MAVLINK_STX_V1, 1, 77, <<7>>, 1))
StuckV2 == EncodeFrame(Frame(MAVLINK_STX_V2, 1, 0, <<7, 7>>, 0))

\* what one uart_read_bytes() may return: nothing, a v2 frame, a frame cut in
\* two, and noise, a frame, a corrupted frame and a frame in one read
Chunks ==
    {<<>>, StuckV2, SubSeq(GoodB, 1, 4), SubSeq(GoodB, 5, Len(GoodB)),
     ((<<85>> \o GoodA) \o BadA) \o GoodB}

Tick ==
    /\ UNCHANGED <<relayVars, mjpegVars, rtspVars, usbVars, taskVars>>
    /\ now_ms + TickMs <= MaxTime
    /\ now_ms' = now_ms + TickMs
    /\ UNCHANGED <<parser, msg, raw_packet, gcs_clients, stats, state, heartbeat,
                   last_cleanup, udp_out, uart_out, frames_in, pending, rx_trace,
                   results, delivered, crc_extra_cnt, pkt_start, ok_log, reads,
                   senders, pumps>>

\* new endpoints show up in index order
NextEndpoints ==
    {k \in 1 .. NumEndpoints : \A j \in 1 .. k - 1 : \E n \in 1 .. Len(senders) : senders[n] = j}

Init ==
    /\ BridgeInit
    /\ VideoInit
    /\ frames_in = <<>>
    /\ pending = <<>>

UartRxFrom(chunks, limit) ==
    \E chunk \in chunks : (chunk = <<>> \/ reads < limit) /\ UartRx(chunk)

UdpRxFrom(limit) ==
    /\ Len(senders) < limit
    /\ \E k \in NextEndpoints : UdpRx(Endpoint(k), Datagram(k, Len(senders) + 1), k)

\* the bridge with a busy network side and a silent serial line: every read
\* of the serial pump times out, and its pass only runs the sweep when due
Next == UartRx(<<>>) \/ UdpRxFrom(MaxDgrams) \/ Tick

Spec == Init /\ [][Next]_vars

\* a datagram from an endpoint not heard before
UdpRxNew(limit) ==
    /\ Len(senders) < limit
    /\ \E k \in {Len(senders) + 1} :
          UdpRx(Endpoint(k), Datagram(k, Len(senders) + 1), k)

\* the bridge with a busy serial side, every datagram from a new peer
PumpNext == UartRxFrom(Chunks, MaxReads) \/ UdpRxNew(PumpDgrams) \/ Tick

SpecPump == Init /\ [][PumpNext]_vars

\* the bridge watched for evictions: a finer and longer clock, one good frame
SmallTickMs == 4000    \* the short step of the clock
SweepMaxTime == 50000  \* last value of this clock
SweepReads == 1        \* non-empty serial reads

SweepChunks == {<<>>, GoodA}

SweepTick ==
    /\ UNCHANGED <<relayVars, mjpegVars, rtspVars, usbVars, taskVars>>
    /\ now_ms + TickMs <= SweepMaxTime
    /\ now_ms' = now_ms + TickMs
    /\ UNCHANGED <<parser, msg, raw_packet, gcs_clients, stats, state, heartbeat,
                   last_cleanup, udp_out, uart_out, frames_in, pending, rx_trace,
                   results, delivered, crc_extra_cnt, pkt_start, ok_log, reads,
                   senders, pumps>>

\* the short step is taken at most once, from a multiple of the long one, when
\* the first peers can go stale
SmallTick ==
    /\ UNCHANGED <<relayVars, mjpegVars, rtspVars, usbVars, taskVars>>
    /\ now_ms % TickMs = 0
    /\ now_ms >= GCS_TIMEOUT_MS
    /\ now_ms + SmallTickMs <= SweepMaxTime
    /\ now_ms' = now_ms + SmallTickMs
    /\ UNCHANGED <<parser, msg, raw_packet, gcs_clients, stats, state, heartbeat,
                   last_cleanup, udp_out, uart_out, frames_in, pending, rx_trace,
                   results, delivered, crc_extra_cnt, pkt_start, ok_log, reads,
                   senders, pumps>>

SweepNext ==
    UartRxFrom(SweepChunks, SweepReads) \/ UdpRxFrom(PumpDgrams) \/ SweepTick \/ SmallTick

\* the pumps keep running: uart_read_bytes() times out after 10 ms, so once the
\* line is silent the serial pump makes pass after pass with an empty read, and
\* the clock advances
SpecSweep ==
    Init /\ [][SweepNext]_vars /\ WF_vars(UartRx(<<>>)) /\ WF_vars(SweepTick)

\* the bridge watched for heartbeats: a heartbeat with its nine payload bytes,
\* a longer message of another kind, and a heartbeat cut to one payload byte
HbFull == EncodeFrame(Frame(MAVLINK_STX_V1, 1, MAVLINK_MSG_ID_HEARTBEAT,
                            <<17, 18, 19, 20, 2, 3, 81, 4, 3>>, 0))
OtherLong == EncodeFrame(Frame(MAVLINK_STX_V1, 2, 77,
                               <<85, 86, 87, 88, 89, 90, 91, 92>>, 0))
HbShort == EncodeFrame(Frame(MAVLINK_STX_V1, 1, MAVLINK_MSG_ID_HEARTBEAT, <<7>>, 0))

HbChunks == {<<>>, HbFull, OtherLong, HbShort}

HbNext == UartRxFrom(HbChunks, MaxReads) \/ Tick

SpecHeartbeat == Init /\ [][HbNext]_vars

\* the age in ms at which the last heartbeat stops counting (line 815)
PIXHAWK_TIMEOUT_MS == 3000

\* mavlink_telemetry_is_pixhawk_connected with a heartbeat that counts up to
\* the timeout itself
mavlink_telemetry_is_pixhawk_connected_Inclusive(hb, now) ==
    hb.last_heartbeat_time > 0 /\ now - hb.last_heartbeat_time <= PIXHAWK_TIMEOUT_MS

\* lines 806-816, for an initialized bridge: now is read after last_hb, and
\* the clock never goes back, so the uint64_t difference does not wrap
mavlink_telemetry_is_pixhawk_connected(hb, now) ==
    hb.last_heartbeat_time > 0 /\ now - hb.last_heartbeat_time < PIXHAWK_TIMEOUT_MS

\* the bridge watched for the heartbeat going stale: a clock that steps by a
\* second, heartbeats and other frames on the serial line
ConnTickMs == 1000     \* step of this clock
ConnMaxTime == 6000    \* last value of this clock
ConnReads == 2         \* non-empty serial reads

ConnChunks == {<<>>, HbFull, OtherLong}

ConnTick ==
    /\ UNCHANGED <<relayVars, mjpegVars, rtspVars, usbVars, taskVars>>
    /\ now_ms + ConnTickMs <= ConnMaxTime
    /\ now_ms' = now_ms + ConnTickMs
    /\ UNCHANGED <<parser, msg, raw_packet, gcs_clients, stats, state, heartbeat,
                   last_cleanup, udp_out, uart_out, frames_in, pending, rx_trace,
                   results, delivered, crc_extra_cnt, pkt_start, ok_log, reads,
                   senders, pumps>>

\* esp_timer counts from boot, and the pumps are created by
\* mavlink_telemetry_start well after its first millisecond: no byte is read
\* at time 0
ConnNext == (now_ms > 0 /\ UartRxFrom(ConnChunks, ConnReads)) \/ ConnTick

SpecConn == Init /\ [][ConnNext]_vars

\* the serial pump on long inputs: a start marker and a length byte, then
\* LongBytes bytes that are all 7 or all start markers, read from the line
\* one byte per uart_read_bytes()
LongBytes == 560

LongStreams ==
    { <<mg, len>> \o [i \in 1 .. LongBytes |-> fill] :
        mg \in {MAVLINK_STX_V1, MAVLINK_STX_V2},
        len \in StreamLens,
        fill \in {7, MAVLINK_STX_V2} }

LongInit ==
    /\ BridgeInit
    /\ VideoInit
    /\ frames_in = <<>>
    /\ pending \in LongStreams

\* the next byte of the line (pending is the whole input, rx_trace what the
\* pump has taken of it)
LongRx ==
    /\ Len(rx_trace) < Len(pending)
    /\ UartRx(<<pending[Len(rx_trace) + 1]>>)

SpecLong == LongInit /\ [][LongRx]_vars

-----------------------------------------------------------------------------
(* The two pumps as tasks on two cores (xTaskCreatePinnedToCore, cores 0 and  *)
(* 1): the steps of the sweep in uart_rx_task and of the peer registration in *)
(* udp_rx_task, one shared-memory access or mutex operation at a time         *)

RaceDgrams == 2        \* datagrams received
RaceEndpoints == 2     \* distinct GCS endpoints
RaceForwards == 1      \* frames the serial pump forwards
RaceTickMs == 31000    \* step of the clock
RaceMaxTime == 62000   \* last value of the clock

Touch(task, fn) == [task |-> task, fn |-> fn, held |-> clients_mutex = task]

RaceTick ==
    /\ UNCHANGED <<relayVars, mjpegVars, rtspVars, usbVars, taskVars>>
    /\ now_ms + RaceTickMs <= RaceMaxTime
    /\ now_ms' = now_ms + RaceTickMs
    /\ UNCHANGED <<parser, msg, raw_packet, gcs_clients, stats, state, heartbeat,
                   last_cleanup, udp_out, uart_out, frames_in, pending, rx_trace,
                   results, delivered, crc_extra_cnt, pkt_start, ok_log, reads,
                   senders, pumps>>

\* what the steps of the two tasks leave alone
RaceFrame ==
    UNCHANGED <<relayVars, mjpegVars, rtspVars, usbVars, parser, msg, raw_packet,
                heartbeat, now_ms, frames_in, pending, rx_trace, results,
                delivered, crc_extra_cnt, pkt_start, ok_log, pumps, rtp_tx>>

\* udp_rx_task: recvfrom() returns a datagram of endpoint k
UdpRecv(k) ==
    /\ RaceFrame
    /\ udp_rx.pc = "recv"
    /\ Len(senders) < RaceDgrams
    /\ udp_rx' = [udp_rx EXCEPT !.pc = "take", !.src_addr = Endpoint(k)]
    /\ senders' = Append(senders, k)
    /\ UNCHANGED <<gcs_clients, stats, state, last_cleanup, udp_out, uart_out,
                   reads, clients_mutex, sweep, touches>>

\* udp_rx_task: xSemaphoreTake(clients_mutex, portMAX_DELAY)
UdpTake ==
    /\ RaceFrame
    /\ udp_rx.pc = "take"
    /\ clients_mutex = "none"
    /\ clients_mutex' = "udp_rx"
    /\ udp_rx' = [udp_rx EXCEPT !.pc = "add"]
    /\ UNCHANGED <<gcs_clients, stats, state, last_cleanup, udp_out, uart_out,
                   reads, senders, sweep, touches>>

\* udp_rx_task in add_gcs_client: the entry of a known peer is refreshed, or
\* the first free slot is filled and stats.gcs_clients is read for the ++
UdpAdd ==
    /\ RaceFrame
    /\ udp_rx.pc = "add"
    /\ \E add \in {add_gcs_client(gcs_clients, stats, udp_rx.src_addr, now_ms)} :
          /\ gcs_clients' = add.clients
          /\ udp_rx' = [udp_rx EXCEPT
                           !.pc = IF add.stats # stats THEN "count" ELSE "give",
                           !.client = add.client,
                           !.count = stats.gcs_clients]
    /\ touches' = touches \cup {Touch("udp_rx", "add_gcs_client")}
    /\ UNCHANGED <<stats, state, last_cleanup, udp_out, uart_out, reads, senders,
                   clients_mutex, sweep>>

\* udp_rx_task in add_gcs_client: the store of stats.gcs_clients++
UdpCount ==
    /\ RaceFrame
    /\ udp_rx.pc = "count"
    /\ stats' = [stats EXCEPT !.gcs_clients = udp_rx.count + 1]
    /\ udp_rx' = [udp_rx EXCEPT !.pc = "give"]
    /\ UNCHANGED <<gcs_clients, state, last_cleanup, udp_out, uart_out, reads,
                   senders, clients_mutex, sweep, touches>>

\* udp_rx_task: messages_received++ and the state change for a tracked peer,
\* xSemaphoreGive, then forward_to_pixhawk
UdpGive ==
    /\ RaceFrame
    /\ udp_rx.pc = "give"
    /\ \E c \in {udp_rx.client} :
         \E fwd \in {forward_to_pixhawk(uart_out, stats,
                                        Datagram(senders[Len(senders)], Len(senders)))} :
          /\ gcs_clients' =
               IF c # -1
               THEN [gcs_clients EXCEPT
                        ![c].messages_received = gcs_clients[c].messages_received + 1]
               ELSE gcs_clients
          /\ state' = IF c # -1 /\ state = MAVLINK_STATE_PIXHAWK_CONNECTED
                      THEN MAVLINK_STATE_GCS_CONNECTED ELSE state
          /\ uart_out' = fwd.uart_out
          /\ stats' = fwd.stats
    /\ clients_mutex' = "none"
    /\ udp_rx' = [udp_rx EXCEPT !.pc = "recv"]
    /\ touches' = IF udp_rx.client # -1
                  THEN touches \cup {Touch("udp_rx", "udp_rx_task")} ELSE touches
    /\ UNCHANGED <<last_cleanup, udp_out, reads, senders, sweep>>

\* uart_rx_task: a frame is complete and forward_to_gcs sends it to the active
\* peers, between xSemaphoreTake and xSemaphoreGive
UartForward ==
    /\ RaceFrame
    /\ sweep.pc = "loop"
    /\ reads < RaceForwards
    /\ clients_mutex = "none"
    /\ \E fwd \in {forward_to_gcs(gcs_clients, udp_out, GoodA)} :
          /\ gcs_clients' = fwd.clients
          /\ udp_out' = fwd.udp_out
    /\ reads' = reads + 1
    /\ touches' = touches \cup {[task |-> "uart_rx", fn |-> "forward_to_gcs", held |-> TRUE]}
    /\ UNCHANGED <<stats, state, last_cleanup, uart_out, senders, clients_mutex,
                   sweep, udp_rx>>

\* cleanup_stale_gcs_clients moves on to slot i + 1, or returns to the loop of
\* uart_rx_task, which stores the tick count it read before the call
SweepOn(sw) ==
    IF sw.i + 1 < MAVLINK_MAX_GCS_CLIENTS
    THEN [sw EXCEPT !.pc = "check", !.i = sw.i + 1]
    ELSE [sw EXCEPT !.pc = "loop"]

SweepLast(sw) == IF SweepOn(sw).pc = "loop" THEN sw.tick ELSE last_cleanup

\* uart_rx_task: the sweep is due; cleanup_stale_gcs_clients reads the clock
SweepBegin ==
    /\ RaceFrame
    /\ sweep.pc = "loop"
    /\ CleanupDue(now_ms, last_cleanup)
    /\ sweep' = [sweep EXCEPT !.pc = "check", !.now = now_ms,
                              !.tick = xTaskGetTickCount(now_ms), !.i = 0]
    /\ UNCHANGED <<gcs_clients, stats, state, last_cleanup, udp_out, uart_out,
                   reads, senders, clients_mutex, udp_rx, touches>>

\* cleanup_stale_gcs_clients: the two tests on slot i
SweepCheck ==
    /\ RaceFrame
    /\ sweep.pc = "check"
    /\ \E stale \in {gcs_clients[sweep.i].active
                       /\ UnsignedSub(sweep.now, gcs_clients[sweep.i].last_seen)
                              > GCS_TIMEOUT_MS} :
          /\ sweep' = IF stale THEN [sweep EXCEPT !.pc = "clear"] ELSE SweepOn(sweep)
          /\ last_cleanup' = IF stale THEN last_cleanup ELSE SweepLast(sweep)
    /\ touches' = touches \cup {Touch("uart_rx", "cleanup_stale_gcs_clients")}
    /\ UNCHANGED <<gcs_clients, stats, state, udp_out, uart_out, reads, senders,
                   clients_mutex, udp_rx>>

\* cleanup_stale_gcs_clients: after the log line and on_gcs_disconnect, slot i
\* is deactivated and stats.gcs_clients is read for the test and the --
SweepClear ==
    /\ RaceFrame
    /\ sweep.pc = "clear"
    /\ gcs_clients' = [gcs_clients EXCEPT ![sweep.i].active = FALSE]
    /\ sweep' = [sweep EXCEPT !.pc = "count", !.count = stats.gcs_clients]
    /\ touches' = touches \cup {Touch("uart_rx", "cleanup_stale_gcs_clients")}
    /\ UNCHANGED <<stats, state, last_cleanup, udp_out, uart_out, reads, senders,
                   clients_mutex, udp_rx>>

\* cleanup_stale_gcs_clients: the store of stats.gcs_clients--
SweepCount ==
    /\ RaceFrame
    /\ sweep.pc = "count"
    /\ stats' = IF sweep.count > 0
                THEN [stats EXCEPT !.gcs_clients = sweep.count - 1] ELSE stats
    /\ sweep' = SweepOn(sweep)
    /\ last_cleanup' = SweepLast(sweep)
    /\ UNCHANGED <<gcs_clients, state, udp_out, uart_out, reads, senders,
                   clients_mutex, udp_rx, touches>>

\* mavlink_telemetry_get_gcs_clients called by another task: the table is
\* copied between xSemaphoreTake and xSemaphoreGive
GetGcsClients ==
    /\ RaceFrame
    /\ clients_mutex = "none"
    /\ touches' = touches \cup {[task |-> "app", fn |-> "mavlink_telemetry_get_gcs_clients",
                                 held |-> TRUE]}
    /\ UNCHANGED <<gcs_clients, stats, state, last_cleanup, udp_out, uart_out,
                   reads, senders, clients_mutex, sweep, udp_rx>>

mavlink_telemetry_is_gcs_connected(st) == st.gcs_clients > 0

RaceNext ==
    \/ RaceTick
    \/ \E k \in 1 .. RaceEndpoints : UdpRecv(k)
    \/ UdpTake
    \/ UdpAdd
    \/ UdpCount
    \/ UdpGive
    \/ UartForward
    \/ SweepBegin
    \/ SweepCheck
    \/ SweepClear
    \/ SweepCount
    \/ GetGcsClients

SpecRace == Init /\ [][RaceNext]_vars

-----------------------------------------------------------------------------
(* The frame relay: camera_task and stream_sender_task of main.c, and the     *)
(* frame slot of the MJPEG server they feed                                  *)

MaxCaptures == 3     \* frames esp_camera_fb_get() returns

\* the lengths a captured frame may have
CaptureSizes == {1, s_frame_buffer_size}

\* capture k: its bytes and its dimensions name the capture
FbBytes(k, len) == [i \in 1 .. len |-> 10 * k + i]
FbWidth(k) == 100 + k
FbHeight(k) == 200 + k

\* memcpy(dst, src, n) on the first n bytes of an array
memcpy(dst, src, n) == [i \in 1 .. Len(dst) |-> IF i <= n THEN src[i] ELSE dst[i]]

\* one entry of relay_log
Event(op, id, m, bytes, flag) ==
    [op |-> op, id |-> id, msg |-> m, bytes |-> bytes, flag |-> flag]

\* mjpeg_server_send_frame cutting an oversized frame down to the capacity
mjpeg_server_send_frame_Truncate(srv, data, size) ==
    IF ~srv.initialized \/ size = 0 THEN [srv |-> srv, ret |-> "ESP_ERR_INVALID_ARG"]
    ELSE LET n == IF size > frame_buf_capacity THEN frame_buf_capacity ELSE size
         IN  [srv |-> [srv EXCEPT !.frame_buf = memcpy(srv.frame_buf, data, n),
                                  !.frame_size = n,
                                  !.frame_seq = srv.frame_seq + 1],
              ret |-> "ESP_OK"]

\* rtsp_server_send_frame of the MJPEG server once it holds frame_mutex (or,
\* for an oversized frame, returns before taking it)
mjpeg_server_send_frame(srv, data, size) ==
    IF ~srv.initialized \/ size = 0 THEN [srv |-> srv, ret |-> "ESP_ERR_INVALID_ARG"]
    ELSE IF size > frame_buf_capacity THEN [srv |-> srv, ret |-> "ESP_ERR_NO_MEM"]
    ELSE [srv |-> [srv EXCEPT !.frame_buf = memcpy(srv.frame_buf, data, size),
                              !.frame_size = size,
                              !.frame_seq = srv.frame_seq + 1],
          ret |-> "ESP_OK"]

\* esp_camera_fb_get() returned capture number s_frames_captured + 1
CameraGet(len) ==
    /\ camera.pc = "get"
    /\ s_frames_captured < MaxCaptures
    /\ s_frames_captured' = s_frames_captured + 1
    /\ camera' = [camera EXCEPT !.pc = "take",
                                !.fb = [id |-> s_frames_captured + 1, len |-> len]]
    /\ UNCHANGED <<s_frame_queue, s_frame_buffer, s_frame_mutex, s_frames_sent,
                   stream_tx, relay_log>>
    /\ UNCHANGED <<bridgeVars, mjpegVars, rtspVars, usbVars, taskVars>>

\* xSemaphoreTake(s_frame_mutex, 10 ms) == pdTRUE
CameraTake ==
    /\ camera.pc = "take"
    /\ s_frame_mutex = NoTask
    /\ s_frame_mutex' = CameraTask
    /\ camera' = [camera EXCEPT !.pc = "copy"]
    /\ UNCHANGED <<s_frame_queue, s_frame_buffer, s_frames_captured, s_frames_sent,
                   stream_tx, relay_log>>
    /\ UNCHANGED <<bridgeVars, mjpegVars, rtspVars, usbVars, taskVars>>

\* the take timed out while the sender held the mutex: the capture is returned
\* to the driver unpublished
CameraTakeTimeout ==
    /\ camera.pc = "take"
    /\ s_frame_mutex # NoTask
    /\ camera' = [camera EXCEPT !.pc = "get", !.fb = NoFb]
    /\ relay_log' = Append(relay_log, Event("abandoned", camera.fb.id, NoMsg, <<>>, FALSE))
    /\ UNCHANGED <<s_frame_queue, s_frame_buffer, s_frame_mutex, s_frames_captured,
                   s_frames_sent, stream_tx>>
    /\ UNCHANGED <<bridgeVars, mjpegVars, rtspVars, usbVars, taskVars>>

\* lines 120-136: the copy into s_frame_buffer and the message, or the
\* oversized frame left out; the mutex is given back either way
CameraCopy ==
    /\ camera.pc = "copy"
    /\ s_frame_mutex' = NoTask
    /\ IF camera.fb.len <= s_frame_buffer_size
       THEN /\ s_frame_buffer' = memcpy(s_frame_buffer,
                                        FbBytes(camera.fb.id, camera.fb.len),
                                        camera.fb.len)
            /\ camera' = [camera EXCEPT
                             !.pc = "overwrite",
                             !.seq = camera.seq + 1,
                             !.msg = [size |-> camera.fb.len,
                                      width |-> FbWidth(camera.fb.id),
                                      height |-> FbHeight(camera.fb.id),
                                      sequence |-> camera.seq]]
            /\ UNCHANGED relay_log
       ELSE /\ camera' = [camera EXCEPT !.pc = "get", !.fb = NoFb]
            /\ relay_log' = Append(relay_log,
                                   Event("too_large", camera.fb.id, NoMsg, <<>>, FALSE))
            /\ UNCHANGED s_frame_buffer
    /\ UNCHANGED <<s_frame_queue, s_frames_captured, s_frames_sent, stream_tx>>
    /\ UNCHANGED <<bridgeVars, mjpegVars, rtspVars, usbVars, taskVars>>

\* xQueueOverwrite(s_frame_queue, &msg); flag: a message was waiting
CameraOverwrite ==
    /\ camera.pc = "overwrite"
    /\ s_frame_queue' = <<camera.msg>>
    /\ relay_log' = Append(relay_log,
                           Event("publish", camera.fb.id, camera.msg,
                                 FbBytes(camera.fb.id, camera.fb.len),
                                 s_frame_queue # <<>>))
    /\ camera' = [camera EXCEPT !.pc = "get", !.fb = NoFb]
    /\ UNCHANGED <<s_frame_buffer, s_frame_mutex, s_frames_captured, s_frames_sent,
                   stream_tx>>
    /\ UNCHANGED <<bridgeVars, mjpegVars, rtspVars, usbVars, taskVars>>

\* xQueueReceive(s_frame_queue, &msg, 100 ms) == pdTRUE
SenderReceive ==
    /\ stream_tx.pc = "recv"
    /\ s_frame_queue # <<>>
    /\ s_frame_queue' = <<>>
    /\ stream_tx' = [pc |-> "take", msg |-> Head(s_frame_queue), waited |-> FALSE]
    /\ relay_log' = Append(relay_log,
                           Event("consume", 0, Head(s_frame_queue), <<>>, FALSE))
    /\ UNCHANGED <<s_frame_buffer, s_frame_mutex, s_frames_captured, s_frames_sent,
                   camera>>
    /\ UNCHANGED <<bridgeVars, mjpegVars, rtspVars, usbVars, taskVars>>

\* xQueueReceive timed out on the empty queue
SenderReceiveTimeout ==
    /\ stream_tx.pc = "recv"
    /\ s_frame_queue = <<>>
    /\ ~stream_tx.waited
    /\ stream_tx' = [stream_tx EXCEPT !.waited = TRUE]
    /\ UNCHANGED <<s_frame_queue, s_frame_buffer, s_frame_mutex, s_frames_captured,
                   s_frames_sent, camera, relay_log>>
    /\ UNCHANGED <<bridgeVars, mjpegVars, rtspVars, usbVars, taskVars>>

\* msg.size > 0 && xSemaphoreTake(s_frame_mutex, 10 ms) == pdTRUE
\* (camera_task never queues a message of size 0)
SenderTake ==
    /\ stream_tx.pc = "take"
    /\ stream_tx.msg.size > 0
    /\ s_frame_mutex = NoTask
    /\ s_frame_mutex' = SenderTask
    /\ stream_tx' = [stream_tx EXCEPT !.pc = "send"]
    /\ UNCHANGED <<s_frame_queue, s_frame_buffer, s_frames_captured, s_frames_sent,
                   camera, relay_log>>
    /\ UNCHANGED <<bridgeVars, mjpegVars, rtspVars, usbVars, taskVars>>

\* the take timed out while camera_task held the mutex: the message is dropped
SenderTakeTimeout ==
    /\ stream_tx.pc = "take"
    /\ s_frame_mutex # NoTask
    /\ stream_tx' = [stream_tx EXCEPT !.pc = "recv"]
    /\ relay_log' = Append(relay_log, Event("lost", 0, stream_tx.msg, <<>>, FALSE))
    /\ UNCHANGED <<s_frame_queue, s_frame_buffer, s_frame_mutex, s_frames_captured,
                   s_frames_sent, camera>>
    /\ UNCHANGED <<bridgeVars, mjpegVars, rtspVars, usbVars, taskVars>>

\* lines 175-190 with rtsp_server_send_frame getting frame_mutex (or returning
\* before it asks): flag says the server took the frame
SenderSend ==
    /\ stream_tx.pc = "send"
    /\ s_server.frame_mutex = NoTask \/ stream_tx.msg.size > frame_buf_capacity
    /\ \E r \in {mjpeg_server_send_frame(s_server, s_frame_buffer, stream_tx.msg.size)} :
          /\ s_server' = r.srv
          /\ relay_log' = Append(relay_log,
                                 Event("send", 0, stream_tx.msg,
                                       SubSeq(s_frame_buffer, 1, stream_tx.msg.size),
                                       r.ret = "ESP_OK"))
    /\ s_frames_sent' = s_frames_sent + 1
    /\ s_frame_mutex' = NoTask
    /\ stream_tx' = [stream_tx EXCEPT !.pc = "recv"]
    /\ UNCHANGED <<s_frame_queue, s_frame_buffer, s_frames_captured, camera>>
    /\ UNCHANGED <<strm, net>>
    /\ UNCHANGED <<bridgeVars, rtspVars, usbVars, taskVars>>

\* rtsp_server_send_frame waited 10 ms for frame_mutex, which a delivery task
\* held, and returned ESP_ERR_TIMEOUT
SenderSendTimeout ==
    /\ stream_tx.pc = "send"
    /\ stream_tx.msg.size <= frame_buf_capacity
    /\ s_server.frame_mutex # NoTask
    /\ relay_log' = Append(relay_log,
                           Event("send_timeout", 0, stream_tx.msg, <<>>, FALSE))
    /\ s_frames_sent' = s_frames_sent + 1
    /\ s_frame_mutex' = NoTask
    /\ stream_tx' = [stream_tx EXCEPT !.pc = "recv"]
    /\ UNCHANGED <<s_frame_queue, s_frame_buffer, s_frames_captured, camera>>
    /\ UNCHANGED <<bridgeVars, mjpegVars, rtspVars, usbVars, taskVars>>

camera_task ==
    \/ \E len \in CaptureSizes : CameraGet(len)
    \/ CameraTake
    \/ CameraTakeTimeout
    \/ CameraCopy
    \/ CameraOverwrite

stream_sender_task ==
    \/ SenderReceive
    \/ SenderReceiveTimeout
    \/ SenderTake
    \/ SenderTakeTimeout
    \/ SenderSend
    \/ SenderSendTimeout

-----------------------------------------------------------------------------
(* The MJPEG server of esp32-usb-cam-rtsp/src/rtsp_server.c: accept_task,    *)
(* one client_stream_task per slot, rtsp_server_send_frame                   *)

\* one thing written to a connection; seq is the frame_seq of the frame a part
\* header, frame bytes or terminator belongs to, 0 for a response header
Item(kind, len, bytes, seq) == [kind |-> kind, len |-> len, bytes |-> bytes, seq |-> seq]

\* a connection the listening socket handed out: what the peer sent first,
\* whether the server still holds the descriptor, what was written to it
Conn(req) == [req |-> req, open |-> TRUE, closes |-> 0, out |-> <<>>]

\* the first line a peer may send; "none" is a peer that sends nothing in 2 s
Requests == {"GET", "POST", "none"}

\* send(): -1, fewer bytes than asked (SO_SNDTIMEO ran out), or all of them
SendResults == {"fail", "partial", "full"}

\* the bytes a send() of n bytes took, by its result
Sent(data, n, result) ==
    IF result = "full" THEN SubSeq(data, 1, n)
    ELSE IF result = "partial" THEN SubSeq(data, 1, n - 1)
    ELSE <<>>

\* lines 206-216: the lowest slot that is not active; -1 stands for the NULL
\* client is left with when every slot is active
FreeSlots == {i \in ClientSlots : ~s_server.clients[i].active}

FindSlot_Recycle ==
    IF FreeSlots = {} THEN 0
    ELSE CHOOSE i \in FreeSlots : \A j \in FreeSlots : i <= j

FindSlot ==
    IF FreeSlots = {} THEN -1
    ELSE CHOOSE i \in FreeSlots : \A j \in FreeSlots : i <= j

WriteTo(c, item) == [net EXCEPT ![c].out = Append(@, item)]
CloseConn(n, c) == [n EXCEPT ![c].open = FALSE, ![c].closes = @ + 1]

\* line 171 and line 246: accept_task tests s_server.running at the top of
\* each round only, and leaves the loop for vTaskDelete when it is false
Looped(srv) ==
    [srv EXCEPT !.accept_task = IF srv.running THEN "accept" ELSE "deleted"]

\* one round of accept_task's loop from the return of accept() on, for a
\* connection that sent req; created is the result of xTaskCreatePinnedToCore
Accept(req, created, limit) ==
    /\ s_server.accept_task = "accept"
    /\ Len(net) < limit
    /\ \E c \in {Len(net) + 1} : \E n \in {Append(net, Conn(req))} :
         IF req = "none"
         THEN /\ net' = CloseConn(n, c)
              /\ s_server' = Looped(s_server)
              /\ UNCHANGED strm
         ELSE IF req # "GET"
         THEN /\ net' = CloseConn([n EXCEPT ![c].out = <<Item("400", 0, <<>>, 0)>>], c)
              /\ s_server' = Looped(s_server)
              /\ UNCHANGED strm
         ELSE \E i \in {FindSlot} :
           IF i = -1
           THEN /\ net' = CloseConn([n EXCEPT ![c].out =
                                         <<Item("503", 0, <<>>, 0)>>], c)
                /\ s_server' = Looped(s_server)
                /\ UNCHANGED strm
           ELSE
              /\ s_server' = Looped([s_server EXCEPT
                                 !.client_id_counter = @ + 1,
                                 !.clients[i] = [sock |-> c,
                                                 active |-> created,
                                                 id |-> s_server.client_id_counter + 1]])
              /\ IF created
                 THEN /\ net' = n
                      /\ strm' = [strm EXCEPT ![i] = [pc |-> "start", last_seq |-> 0,
                                                      frame_size |-> 0]]
                 ELSE /\ net' = CloseConn(n, c)
                      /\ UNCHANGED strm
    /\ UNCHANGED <<bridgeVars, relayVars, rtspVars, usbVars, taskVars>>

\* line 79: the HTTP response header
StrmStart(i, result) ==
    /\ strm[i].pc = "start"
    /\ IF result = "fail"
       THEN /\ strm' = [strm EXCEPT ![i].pc = "cleanup"]
            /\ UNCHANGED net
       ELSE /\ strm' = [strm EXCEPT ![i].pc = "loop"]
            /\ net' = WriteTo(s_server.clients[i].sock, Item("http_header", 0, <<>>, 0))
    /\ UNCHANGED s_server
    /\ UNCHANGED <<bridgeVars, relayVars, rtspVars, usbVars, taskVars>>

\* lines 95-111: the loop test, the take of frame_mutex, the test for a new
\* frame and the part header (a round that finds no new frame, or times out
\* on the mutex, changes nothing)
StrmSendHeader(i, result) ==
    /\ strm[i].pc = "loop"
    /\ s_server.clients[i].active /\ s_server.running
    /\ s_server.frame_mutex = NoTask
    /\ s_server.frame_size > 0 /\ s_server.frame_seq # strm[i].last_seq
    /\ IF result = "fail"
       THEN /\ strm' = [strm EXCEPT ![i].pc = "cleanup",
                                    ![i].last_seq = s_server.frame_seq,
                                    ![i].frame_size = s_server.frame_size]
            /\ UNCHANGED <<s_server, net>>
       ELSE /\ strm' = [strm EXCEPT ![i].pc = "send_data",
                                    ![i].last_seq = s_server.frame_seq,
                                    ![i].frame_size = s_server.frame_size]
            /\ s_server' = [s_server EXCEPT !.frame_mutex = StreamTask(i)]
            /\ net' = WriteTo(s_server.clients[i].sock,
                              Item("part_header", s_server.frame_size, <<>>,
                                   s_server.frame_seq))
    /\ UNCHANGED <<bridgeVars, relayVars, rtspVars, usbVars, taskVars>>

StrmSendData_KeepMutex(i, result) ==
    /\ strm[i].pc = "send_data"
    /\ result = "partial" => strm[i].frame_size > 1
    /\ IF result = "fail"
       THEN /\ strm' = [strm EXCEPT ![i].pc = "cleanup"]
            /\ UNCHANGED <<s_server, net>>
       ELSE /\ strm' = [strm EXCEPT ![i].pc = "send_term"]
            /\ s_server' = [s_server EXCEPT !.frame_mutex = NoTask]
            /\ net' = WriteTo(s_server.clients[i].sock,
                              Item("data", 0,
                                   Sent(s_server.frame_buf, strm[i].frame_size, result),
                                   strm[i].last_seq))
    /\ UNCHANGED <<bridgeVars, relayVars, rtspVars, usbVars, taskVars>>

\* lines 114-121: the frame bytes, then the mutex is given
StrmSendData(i, result) ==
    /\ strm[i].pc = "send_data"
    /\ result = "partial" => strm[i].frame_size > 1
    /\ s_server' = [s_server EXCEPT !.frame_mutex = NoTask]
    /\ IF result = "fail"
       THEN /\ strm' = [strm EXCEPT ![i].pc = "cleanup"]
            /\ UNCHANGED net
       ELSE /\ strm' = [strm EXCEPT ![i].pc = "send_term"]
            /\ net' = WriteTo(s_server.clients[i].sock,
                              Item("data", 0,
                                   Sent(s_server.frame_buf, strm[i].frame_size, result),
                                   strm[i].last_seq))
    /\ UNCHANGED <<bridgeVars, relayVars, rtspVars, usbVars, taskVars>>

\* lines 124-125: the part terminator
StrmSendTerm(i, result) ==
    /\ strm[i].pc = "send_term"
    /\ IF result = "fail"
       THEN /\ strm' = [strm EXCEPT ![i].pc = "cleanup"]
            /\ UNCHANGED net
       ELSE /\ strm' = [strm EXCEPT ![i].pc = "loop"]
            /\ net' = WriteTo(s_server.clients[i].sock, Item("crlf", 0, <<>>, strm[i].last_seq))
    /\ UNCHANGED s_server
    /\ UNCHANGED <<bridgeVars, relayVars, rtspVars, usbVars, taskVars>>

\* lines 147-157
StrmCleanup(i) ==
    /\ strm[i].pc = "cleanup"
    /\ net' = CloseConn(net, s_server.clients[i].sock)
    /\ s_server' = [s_server EXCEPT !.clients[i].active = FALSE]
    /\ strm' = [strm EXCEPT ![i].pc = "none"]
    /\ UNCHANGED <<bridgeVars, relayVars, rtspVars, usbVars, taskVars>>

\* rtsp_server_send_frame called with a frame of the given bytes, at most
\* limit times
ServerSendFrame(data, limit) ==
    /\ s_server.frame_mutex = NoTask \/ Len(data) > frame_buf_capacity
    /\ s_server.frame_seq < limit
    /\ s_server' = mjpeg_server_send_frame(s_server, data, Len(data)).srv
    /\ UNCHANGED <<strm, net>>
    /\ UNCHANGED <<bridgeVars, relayVars, rtspVars, usbVars, taskVars>>

\* app_main: camera_task, stream_sender_task and the MJPEG server together,
\* with up to RelayConns viewers whose sockets take everything written
RelayConns == 1

\* the client_stream_task of slot i on a socket that takes everything written
Viewer(i) ==
    \/ StrmStart(i, "full")
    \/ StrmSendHeader(i, "full")
    \/ StrmSendData(i, "full")
    \/ StrmSendTerm(i, "full")

RelayViewer == Accept("GET", TRUE, RelayConns) \/ Viewer(0)

RelayNext == camera_task \/ stream_sender_task \/ RelayViewer

SpecRelay == Init /\ [][RelayNext]_vars

\* the MJPEG server with more connections than slots: peers that send a GET
\* or another request line, sockets that take everything written, and
\* AcceptFrames frames of one byte handed to rtsp_server_send_frame
AcceptConns == 5
AcceptFrames == 1

AcceptNext ==
    \/ \E req \in {"GET", "POST"} : Accept(req, TRUE, AcceptConns)
    \/ \E i \in ClientSlots : Viewer(i)
    \/ ServerSendFrame(FbBytes(s_server.frame_seq + 1, 1), AcceptFrames)

SpecAccept == Init /\ [][AcceptNext]_vars

\* the MJPEG server with peers of every kind and sockets whose writes may
\* fail; a short write is modelled for the frame bytes, the headers and the
\* terminator are written whole or not at all
MjpegConns == 2
MjpegFrames == 1

HeaderResults == {"fail", "full"}

client_stream_task(i) ==
    \/ \E result \in HeaderResults : StrmStart(i, result)
    \/ \E result \in HeaderResults : StrmSendHeader(i, result)
    \/ \E result \in SendResults : StrmSendData(i, result)
    \/ \E result \in HeaderResults : StrmSendTerm(i, result)
    \/ StrmCleanup(i)

accept_task(limit) ==
    \E req \in Requests, created \in BOOLEAN : Accept(req, created, limit)

MjpegNext ==
    \/ accept_task(MjpegConns)
    \/ \E i \in ClientSlots : client_stream_task(i)
    \/ \E len \in CaptureSizes :
          ServerSendFrame(FbBytes(s_server.frame_seq + 1, len), MjpegFrames)

SpecMjpeg == Init /\ [][MjpegNext]_vars

-----------------------------------------------------------------------------
(* The RTSP server of src/rtsp_server.c: rtsp_server_task with the request   *)
(* handlers, cleanup_client, rtsp_server_send_frame with send_rtp_frame      *)

RTP_HEADER_SIZE == 12
RTP_MAX_PACKET_SIZE == 1400
CAM_FPS == 15

\* a request as one recv() returned it: the method its first line starts with,
\* the number in its CSeq header (said) and what strstr(request, "CSeq:") and
\* sscanf make of it (cseq, -1: not found), and for SETUP what the Transport
\* header is: "pair" client_port=a-b, "single" client_port=a, or one of the
\* three forms handle_setup answers with 400
Request(method, transport, cseq) ==
    [method |-> method, transport |-> transport, said |-> cseq, cseq |-> cseq,
     rtp_port |-> 5000, rtcp_port |-> 5001]

\* the spellings of the header name a peer may use (RFC 2326 section 4.2:
\* header names are case-insensitive)
CSeqNames == {"CSeq", "cseq"}

\* the request with its CSeq header spelled name: strstr is case-sensitive
\* and finds only "CSeq:"
Spelled(name, req) == IF name = "CSeq" THEN req ELSE [req EXCEPT !.cseq = -1]

Transports == {"pair", "single", "no_transport", "no_client_port", "bad_port"}
Methods == {"OPTIONS", "DESCRIBE", "SETUP", "PLAY", "TEARDOWN", "PAUSE"}

\* the value of the local rtcp_port that sscanf did not write (line 223)
Uninitialized == {0, 47}

\* a connection accepted on the RTSP port: the control socket still open at
\* the server, the UDP sockets made for it (open or closed), the requests
\* handled (the method, the CSeq, and for a SETUP whether its header has a
\* client_port that parses), the responses written, the RTP packets sent to
\* its address, the calls of send_rtp_frame for it (frame size, timestamp on
\* entry, packets sent, result), and the states its client entry went
\* through while it was active
RtspConn ==
    [open |-> TRUE, udp |-> <<>>, in |-> <<>>, out |-> <<>>, rtp |-> <<>>,
     frames |-> <<>>, trace |-> <<RTSP_CLIENT_STATE_INIT>>]

Response(status, cseq) == [status |-> status, cseq |-> cseq]

generate_session_id(c) == 1000 + c

find_free_client_slot ==
    IF \A i \in RtspSlots : s_rtsp.clients[i].active THEN -1
    ELSE CHOOSE i \in RtspSlots :
            /\ ~s_rtsp.clients[i].active
            /\ \A j \in RtspSlots : ~s_rtsp.clients[j].active => i <= j

\* cleanup_client on entry cl: the entry afterwards
cleanup_client(cl) ==
    IF ~cl.active THEN cl
    ELSE [cl EXCEPT !.rtsp_socket = -1, !.rtp_socket = -1, !.rtcp_socket = -1,
                    !.active = FALSE, !.state = RTSP_CLIENT_STATE_INIT]

\* the sockets cleanup_client closes, on the connection of entry cl
ClosedBy(conn, cl) ==
    [conn EXCEPT !.open = IF cl.active /\ cl.rtsp_socket >= 0 THEN FALSE ELSE @,
                 !.udp = [k \in DOMAIN conn.udp |->
                             IF cl.active /\ cl.rtp_socket = k THEN FALSE
                             ELSE conn.udp[k]]]

Handled(cl, status, made) == [cl |-> cl, status |-> status, made |-> made]

handle_options(cl) == Handled(cl, 200, FALSE)
handle_describe(cl) == Handled(cl, 200, FALSE)

\* sock is what socket() returns (-1 or the new descriptor), garbage the
\* uninitialised rtcp_port
handle_setup(cl, req, sock, garbage) ==
    IF req.transport \in {"no_transport", "no_client_port", "bad_port"}
    THEN Handled(cl, 400, FALSE)
    ELSE LET rtcp0 == IF req.transport = "pair" THEN req.rtcp_port ELSE garbage
             rtcp == IF rtcp0 = 0 THEN req.rtp_port + 1 ELSE rtcp0
             c1 == [cl EXCEPT !.rtp_port = req.rtp_port % 65536,
                              !.rtcp_port = rtcp % 65536,
                              !.session_id = IF @ = 0
                                             THEN generate_session_id(cl.rtsp_socket)
                                             ELSE @,
                              !.rtp_socket = sock]
         IN  IF sock < 0 THEN Handled(c1, 500, FALSE)
             ELSE Handled([c1 EXCEPT !.rtp_sequence = 0,
                                     !.rtp_timestamp = U32(0, 0),
                                     !.state = RTSP_CLIENT_STATE_READY],
                          200, TRUE)

handle_play_AnyState(cl) ==
    Handled([cl EXCEPT !.state = RTSP_CLIENT_STATE_PLAYING], 200, FALSE)

handle_play(cl) ==
    IF cl.state # RTSP_CLIENT_STATE_READY THEN Handled(cl, 455, FALSE)
    ELSE Handled([cl EXCEPT !.state = RTSP_CLIENT_STATE_PLAYING], 200, FALSE)

handle_teardown_KeepState(cl) == Handled(cl, 200, FALSE)

handle_teardown(cl) ==
    Handled([cl EXCEPT !.state = RTSP_CLIENT_STATE_TEARDOWN], 200, FALSE)

handle_rtsp_request(cl, req, sock, garbage) ==
    LET c0 == [cl EXCEPT !.cseq = IF req.cseq >= 0 THEN req.cseq ELSE @]
    IN  IF req.method = "OPTIONS" THEN handle_options(c0)
        ELSE IF req.method = "DESCRIBE" THEN handle_describe(c0)
        ELSE IF req.method = "SETUP" THEN handle_setup(c0, req, sock, garbage)
        ELSE IF req.method = "PLAY" THEN handle_play(c0)
        ELSE IF req.method = "TEARDOWN" THEN handle_teardown(c0)
        ELSE Handled(c0, 501, FALSE)

\* lines 514-552: a connection is waiting on the listening socket
RtspAccept(limit) ==
    /\ rtsp_srv.pc = "select"
    /\ s_rtsp.task_running
    /\ rtp_tx.pc = "idle"
    /\ Len(rtsp_net) < limit
    /\ \E i \in {find_free_client_slot} :
          IF i = -1
          THEN /\ rtsp_net' = Append(rtsp_net, [RtspConn EXCEPT !.open = FALSE])
               /\ UNCHANGED s_rtsp
          ELSE /\ rtsp_net' = Append(rtsp_net, RtspConn)
               /\ s_rtsp' = [s_rtsp EXCEPT
                                !.clients[i] = [RtspNoClient EXCEPT
                                                   !.active = TRUE,
                                                   !.rtsp_socket = Len(rtsp_net) + 1],
                                !.stats.total_clients = @ + 1,
                                !.stats.active_clients = @ + 1]
    /\ UNCHANGED rtsp_srv
    /\ UNCHANGED <<bridgeVars, relayVars, mjpegVars, usbVars, taskVars>>

\* requests handled so far, on all connections
RECURSIVE Handled_n(_)
Handled_n(c) == IF c = 0 THEN 0 ELSE Len(rtsp_net[c].in) + Handled_n(c - 1)

\* lines 562-586 for a recv() that returned a request: handle_rtsp_request,
\* and for a client now in Teardown the wait for clients_mutex
RtspRecv(i, req, sockok, garbage, limit) ==
    /\ rtsp_srv.pc = "select"
    /\ s_rtsp.task_running
    /\ s_rtsp.clients[i].active /\ s_rtsp.clients[i].rtsp_socket >= 0
    /\ \E c \in {s_rtsp.clients[i].rtsp_socket} :
       /\ Handled_n(Len(rtsp_net)) < limit
       /\ \E r \in {handle_rtsp_request(s_rtsp.clients[i], req,
                                        IF sockok THEN Len(rtsp_net[c].udp) + 1 ELSE -1,
                                        garbage)} :
          /\ s_rtsp' = [s_rtsp EXCEPT !.clients[i] = r.cl]
          /\ rtsp_net' = [rtsp_net EXCEPT
                ![c].in = Append(@, [method |-> req.method,
                                     cseq |-> req.said,
                                     transport |->
                                        IF req.transport \in {"pair", "single"}
                                        THEN "client_port"
                                        ELSE IF req.method = "SETUP"
                                        THEN "malformed" ELSE "none"]),
                ![c].out = Append(@, Response(r.status, r.cl.cseq)),
                ![c].udp = IF r.made THEN Append(@, TRUE) ELSE @,
                ![c].trace = IF r.cl.state # s_rtsp.clients[i].state
                             THEN Append(@, r.cl.state) ELSE @]
          /\ rtsp_srv' = IF r.cl.state = RTSP_CLIENT_STATE_TEARDOWN
                         THEN [pc |-> "cleanup", slot |-> i]
                         ELSE rtsp_srv
    /\ UNCHANGED <<bridgeVars, relayVars, mjpegVars, usbVars, taskVars>>

\* lines 565-575: recv() returned 0 or -1; cleanup_client runs once
\* clients_mutex is free
RtspClosed(i) ==
    /\ rtsp_srv.pc = "select"
    /\ s_rtsp.task_running
    /\ rtp_tx.pc = "idle"
    /\ s_rtsp.clients[i].active /\ s_rtsp.clients[i].rtsp_socket >= 0
    /\ s_rtsp' = [s_rtsp EXCEPT
                     !.clients[i] = cleanup_client(@),
                     !.stats.active_clients = IF @ > 0 THEN @ - 1 ELSE @]
    /\ rtsp_net' = [rtsp_net EXCEPT ![s_rtsp.clients[i].rtsp_socket] =
                                       ClosedBy(@, s_rtsp.clients[i])]
    /\ UNCHANGED rtsp_srv
    /\ UNCHANGED <<bridgeVars, relayVars, mjpegVars, usbVars, taskVars>>

\* lines 581-585: clients_mutex taken, cleanup_client after a TEARDOWN
RtspCleanup ==
    /\ rtsp_srv.pc = "cleanup"
    /\ rtp_tx.pc = "idle"
    /\ \E i \in {rtsp_srv.slot} :
          /\ s_rtsp' = [s_rtsp EXCEPT
                           !.clients[i] = cleanup_client(@),
                           !.stats.active_clients =
                               IF s_rtsp.clients[i].active /\ @ > 0 THEN @ - 1 ELSE @]
          /\ rtsp_net' = [rtsp_net EXCEPT ![s_rtsp.clients[i].rtsp_socket] =
                                             ClosedBy(@, s_rtsp.clients[i])]
    /\ rtsp_srv' = [pc |-> "select", slot |-> 0]
    /\ UNCHANGED <<bridgeVars, relayVars, mjpegVars, usbVars, taskVars>>

max_payload == RTP_MAX_PACKET_SIZE - RTP_HEADER_SIZE - 8

\* the packets of the loop of send_rtp_frame when every sendto succeeds:
\* sequence number, timestamp and marker bit of the RTP header, the 24-bit
\* fragment offset of the JPEG header, and the payload as memcpy takes it,
\* len bytes of the frame from byte from on
payload_size(remaining) == IF remaining > max_payload THEN max_payload ELSE remaining

marker_Strict(remaining) == remaining < max_payload

marker(remaining) == remaining <= max_payload

RECURSIVE RtpPackets(_, _, _, _)
RtpPackets(seq, ts, offset, remaining) ==
    IF remaining = 0 THEN <<>>
    ELSE <<[seq |-> seq % 65536, ts |-> ts, marker |-> marker(remaining),
            offset |-> offset % 16777216, from |-> offset,
            len |-> payload_size(remaining)]>>
         \o RtpPackets(seq + 1, ts, offset + payload_size(remaining),
                       remaining - payload_size(remaining))

send_rtp_frame_EndOnFail(cl, size, fail_at) ==
    IF cl.state # RTSP_CLIENT_STATE_PLAYING \/ cl.rtp_socket < 0
    THEN [cl |-> cl, pkts |-> <<>>, ret |-> "ESP_ERR_INVALID_STATE"]
    ELSE LET pkts == RtpPackets(cl.rtp_sequence, cl.rtp_timestamp, 0, size)
         IN  IF fail_at \in 1 .. Len(pkts)
             THEN [cl |-> [cl EXCEPT !.rtp_sequence = (@ + fail_at) % 65536,
                                     !.state = RTSP_CLIENT_STATE_TEARDOWN],
                   pkts |-> SubSeq(pkts, 1, fail_at - 1), ret |-> "ESP_FAIL"]
             ELSE [cl |-> [cl EXCEPT !.rtp_sequence = (@ + Len(pkts)) % 65536,
                                     !.rtp_timestamp = Add32(@, 90000 \div CAM_FPS),
                                     !.frames_sent = @ + 1],
                   pkts |-> pkts, ret |-> "ESP_OK"]

\* send_rtp_frame for a frame of size bytes; fail_at = k > 0: the k-th sendto
\* of the call returns -1 (a k beyond the last packet never happens), after
\* client->rtp_sequence++ was evaluated for that packet
send_rtp_frame(cl, size, fail_at) ==
    IF cl.state # RTSP_CLIENT_STATE_PLAYING \/ cl.rtp_socket < 0
    THEN [cl |-> cl, pkts |-> <<>>, ret |-> "ESP_ERR_INVALID_STATE"]
    ELSE LET pkts == RtpPackets(cl.rtp_sequence, cl.rtp_timestamp, 0, size)
         IN  IF fail_at \in 1 .. Len(pkts)
             THEN [cl |-> [cl EXCEPT !.rtp_sequence = (@ + fail_at) % 65536],
                   pkts |-> SubSeq(pkts, 1, fail_at - 1), ret |-> "ESP_FAIL"]
             ELSE [cl |-> [cl EXCEPT !.rtp_sequence = (@ + Len(pkts)) % 65536,
                                     !.rtp_timestamp = Add32(@, 90000 \div CAM_FPS),
                                     !.frames_sent = @ + 1],
                   pkts |-> pkts, ret |-> "ESP_OK"]

\* the slots send_rtp_frame is called for (line 759)
PlayingSlots ==
    {i \in RtspSlots : /\ s_rtsp.clients[i].active
                       /\ s_rtsp.clients[i].state = RTSP_CLIENT_STATE_PLAYING}

\* rtsp_server_send_frame with a frame of size bytes, while no connection has
\* had limit calls of send_rtp_frame; fail_at[i]: the sendto that fails for
\* slot i, 0 for none
RtspSendFrame(size, fail_at, limit) ==
    /\ s_rtsp.initialized
    /\ s_rtsp.state = RTSP_SERVER_STATE_RUNNING
    /\ \A c \in DOMAIN rtsp_net : Len(rtsp_net[c].frames) < limit
    /\ \E sent \in {[i \in PlayingSlots |->
                      send_rtp_frame(s_rtsp.clients[i], size, fail_at[i])]} :
          /\ s_rtsp' = [s_rtsp EXCEPT
                !.clients = [i \in RtspSlots |->
                                IF i \in PlayingSlots THEN sent[i].cl ELSE @[i]],
                !.stats.total_frames_sent =
                    @ + Cardinality({i \in PlayingSlots : sent[i].ret = "ESP_OK"})]
          /\ rtsp_net' = [c \in DOMAIN rtsp_net |->
                IF \E i \in PlayingSlots : s_rtsp.clients[i].rtsp_socket = c
                THEN LET i == CHOOSE i \in PlayingSlots : s_rtsp.clients[i].rtsp_socket = c
                     IN  [rtsp_net[c] EXCEPT
                             !.rtp = @ \o sent[i].pkts,
                             !.frames = Append(@, [size |-> size,
                                                   ts |-> s_rtsp.clients[i].rtp_timestamp,
                                                   sent |-> Len(sent[i].pkts),
                                                   ret |-> sent[i].ret])]
                ELSE rtsp_net[c]]
    /\ UNCHANGED rtsp_srv
    /\ UNCHANGED <<bridgeVars, relayVars, mjpegVars, usbVars, taskVars>>

\* fail_at when every sendto succeeds
NoSendFails == [i \in RtspSlots |-> 0]

\* the RTSP server with RtspConns connections sending RtspRequests requests
\* in all, one per recv() and numbered from 1 in CSeq, or closing; frames
\* of one and of two packets
RtspConns == 1
RtspRequests == 3
RtspFrames == 1

RtpFrameSizes == {1, max_payload + 1}

NextCSeq(i) ==
    IF s_rtsp.clients[i].active
    THEN Len(rtsp_net[s_rtsp.clients[i].rtsp_socket].in) + 1
    ELSE 0

rtsp_server_task ==
    \/ RtspAccept(RtspConns)
    \/ \E i \in RtspSlots, method \in Methods \ {"SETUP"} :
          RtspRecv(i, Request(method, "none", NextCSeq(i)), TRUE, 0, RtspRequests)
    \/ \E i \in RtspSlots, transport \in Transports, sockok \in BOOLEAN,
          garbage \in Uninitialized :
          RtspRecv(i, Request("SETUP", transport, NextCSeq(i)), sockok, garbage,
                   RtspRequests)
    \/ \E i \in RtspSlots : RtspClosed(i)
    \/ RtspCleanup

RtspNext ==
    \/ rtsp_server_task
    \/ \E size \in RtpFrameSizes : RtspSendFrame(size, NoSendFails, RtspFrames)

SpecRtsp == Init /\ [][RtspNext]_vars

\* the RTSP server left to itself: the task goes round its loop, select
\* returning after 100 ms at the latest, so the cleanup after a TEARDOWN is
\* always reached; what the peers send, and when, is up to them
SpecIdle == Init /\ [][RtspNext]_vars /\ WF_vars(RtspCleanup)

\* the RTSP server with peers that spell the CSeq header either way
CSeqNext ==
    \/ RtspAccept(RtspConns)
    \/ \E i \in RtspSlots, method \in Methods, name \in CSeqNames :
          RtspRecv(i, Spelled(name, Request(method, "pair", NextCSeq(i))), TRUE, 0,
                   RtspRequests)
    \/ RtspCleanup

SpecCSeq == Init /\ [][CSeqNext]_vars

\* the entry of a client that sent SETUP with client_port=5000-5001 and PLAY
\* on connection c and has been streamed to since: start gives the sequence
\* number, the timestamp and the frame count it has got to
Streaming(c, start) ==
    LET accepted == [RtspNoClient EXCEPT !.active = TRUE, !.rtsp_socket = c]
        ready == handle_rtsp_request(accepted, Request("SETUP", "pair", 1), 1, 0).cl
        playing == handle_rtsp_request(ready, Request("PLAY", "none", 2), -1, 0).cl
    IN  [playing EXCEPT !.rtp_sequence = start.seq,
                        !.rtp_timestamp = start.ts,
                        !.frames_sent = start.frames_sent]

\* the connection of such a client; the packets sent to it before are left out
StreamingConn ==
    [RtspConn EXCEPT
        !.in = <<[method |-> "SETUP", cseq |-> 1, transport |-> "client_port"],
                 [method |-> "PLAY", cseq |-> 2, transport |-> "none"]>>,
        !.out = <<Response(200, 1), Response(200, 2)>>,
        !.udp = <<TRUE>>,
        !.trace = <<RTSP_CLIENT_STATE_INIT, RTSP_CLIENT_STATE_READY,
                    RTSP_CLIENT_STATE_PLAYING>>]

\* where a stream may have got to: just started; one frame of one packet
\* sent; 715827 frames sent in 720895 packets, so that the next packet has
\* the last 16-bit sequence number and the next frame's end takes the
\* timestamp past 2^32
StreamStarts ==
    {[seq |-> 0, ts |-> U32(0, 0), frames_sent |-> 0],
     [seq |-> 1, ts |-> U32(0, 90000 \div CAM_FPS), frames_sent |-> 1],
     [seq |-> 65535, ts |-> U32(65535, 60240), frames_sent |-> 715827]}

\* the RTSP server with n clients in state Playing, all at the same point of
\* their streams
StreamingInit(n) ==
    /\ BridgeInit
    /\ RelayInit
    /\ MjpegInit
    /\ UsbInit
    /\ frames_in = <<>>
    /\ pending = <<>>
    /\ rtsp_srv = [pc |-> "select", slot |-> 0]
    /\ rtsp_net = [c \in 1 .. n |-> StreamingConn]
    /\ \E start \in StreamStarts :
          s_rtsp = [initialized |-> TRUE, state |-> RTSP_SERVER_STATE_RUNNING,
                    task_running |-> TRUE,
                    clients |-> [i \in RtspSlots |->
                                    IF i < n THEN Streaming(i + 1, start)
                                    ELSE RtspNoClient],
                    stats |-> [total_clients |-> n, active_clients |-> n,
                               total_frames_sent |-> n * start.frames_sent]]

\* send_rtp_frame for one Playing client: RtpFrames frames of one, two and
\* three packets, with sizes at both sides of a multiple of max_payload, and
\* any one sendto of a frame failing
RtpFrames == 2

RtpSizes == {1, 2, max_payload - 1, max_payload, max_payload + 1,
             2 * max_payload - 1, 2 * max_payload, 2 * max_payload + 1}

\* the number of packets of a frame of size bytes
PacketsOf(size) == Len(RtpPackets(0, U32(0, 0), 0, size))

RtpNext ==
    \E size \in RtpSizes : \E k \in 0 .. PacketsOf(size) :
       RtspSendFrame(size, [i \in RtspSlots |-> k], RtpFrames)

SpecRtp == StreamingInit(1) /\ [][RtpNext]_vars

\* rtsp_server_send_frame one step at a time: the task that calls it
\* (stream_task through frame_callback) and rtsp_server_task have the same
\* priority on the same core, and every sendto() lets the other task run
BcastClients == 1      \* clients in state Playing at the start
BcastRequests == 2     \* requests handled while frames are sent
BcastFrames == 1       \* frames handed to rtsp_server_send_frame

\* lines 746-754: the two tests and xSemaphoreTake(clients_mutex)
TxBegin(size) ==
    /\ rtp_tx.pc = "idle"
    /\ rtp_tx.frames < BcastFrames
    /\ s_rtsp.initialized
    /\ s_rtsp.state = RTSP_SERVER_STATE_RUNNING
    /\ rtp_tx' = [rtp_tx EXCEPT !.pc = "slot", !.i = 0, !.size = size,
                                !.frames = @ + 1]
    /\ UNCHANGED <<clients_mutex, sweep, udp_rx, touches>>
    /\ UNCHANGED <<bridgeVars, relayVars, mjpegVars, rtspVars, usbVars>>

\* lines 756-759 and 415-421: the tests on slot i in rtsp_server_send_frame
\* and on entry to send_rtp_frame; after the last slot, xSemaphoreGive
TxSlot ==
    /\ rtp_tx.pc = "slot"
    /\ rtp_tx' =
         IF rtp_tx.i >= RTSP_MAX_CLIENTS
         THEN [rtp_tx EXCEPT !.pc = "idle"]
         ELSE IF /\ s_rtsp.clients[rtp_tx.i].active
                 /\ s_rtsp.clients[rtp_tx.i].state = RTSP_CLIENT_STATE_PLAYING
                 /\ s_rtsp.clients[rtp_tx.i].rtp_socket >= 0
                 /\ rtp_tx.size > 0
         THEN [rtp_tx EXCEPT !.pc = "packet", !.remaining = rtp_tx.size, !.offset = 0]
         ELSE [rtp_tx EXCEPT !.i = @ + 1]
    /\ UNCHANGED <<clients_mutex, sweep, udp_rx, touches>>
    /\ UNCHANGED <<bridgeVars, relayVars, mjpegVars, rtspVars, usbVars>>

\* lines 433-462: one round of the loop of send_rtp_frame for slot i, with
\* the sendto() on the client's rtp_socket as it is then (-1: sendto fails);
\* after the last packet, lines 465-468 and 761-764
TxPacket ==
    /\ rtp_tx.pc = "packet"
    /\ \E i \in {rtp_tx.i} : \E cl \in {s_rtsp.clients[rtp_tx.i]} :
         LET n    == payload_size(rtp_tx.remaining)
             pkt  == [seq |-> cl.rtp_sequence % 65536, ts |-> cl.rtp_timestamp,
                      marker |-> marker(rtp_tx.remaining),
                      offset |-> rtp_tx.offset % 16777216, from |-> rtp_tx.offset,
                      len |-> n]
             last == rtp_tx.remaining - n = 0
             c1   == [cl EXCEPT !.rtp_sequence = (@ + 1) % 65536]
         IN  IF cl.rtp_socket < 0
             THEN /\ s_rtsp' = [s_rtsp EXCEPT !.clients[i] = c1]
                  /\ rtp_tx' = [rtp_tx EXCEPT !.pc = "slot", !.i = @ + 1]
                  /\ UNCHANGED rtsp_net
             ELSE /\ s_rtsp' =
                       IF last
                       THEN [s_rtsp EXCEPT
                                !.clients[i] =
                                    [c1 EXCEPT !.rtp_timestamp = Add32(@, 90000 \div CAM_FPS),
                                               !.frames_sent = @ + 1],
                                !.stats.total_frames_sent = @ + 1]
                       ELSE [s_rtsp EXCEPT !.clients[i] = c1]
                  /\ rtsp_net' = [rtsp_net EXCEPT ![cl.rtsp_socket].rtp = Append(@, pkt)]
                  /\ rtp_tx' = [rtp_tx EXCEPT
                                   !.pc = IF last THEN "slot" ELSE "packet",
                                   !.i = IF last THEN @ + 1 ELSE @,
                                   !.remaining = @ - n,
                                   !.offset = @ + n,
                                   !.sent = Append(@, [slot |-> i, state |-> cl.state])]
    /\ UNCHANGED rtsp_srv
    /\ UNCHANGED <<clients_mutex, sweep, udp_rx, touches>>
    /\ UNCHANGED <<bridgeVars, relayVars, mjpegVars, usbVars>>

\* the requests of a client that has been streamed to
BcastMethods == {"OPTIONS", "PLAY", "TEARDOWN"}

\* rtsp_server_task handling requests and closed connections while frames of
\* two packets are sent to a client in state Playing
BcastNext ==
    \/ \E i \in RtspSlots, method \in BcastMethods :
          RtspRecv(i, Request(method, "none", NextCSeq(i)), TRUE, 0,
                   Len(StreamingConn.in) + BcastRequests)
    \/ \E i \in RtspSlots, sockok \in BOOLEAN :
          RtspRecv(i, Request("SETUP", "pair", NextCSeq(i)), sockok, 0,
                   Len(StreamingConn.in) + BcastRequests)
    \/ \E i \in RtspSlots : RtspClosed(i)
    \/ RtspCleanup
    \/ TxBegin(max_payload + 1)
    \/ TxSlot
    \/ TxPacket

SpecBcast == StreamingInit(BcastClients) /\ [][BcastNext]_vars

\* rtsp_server_send_frame with LossClients clients Playing: LossFrames frames
\* of one and of two packets, and for each client any one sendto, or none,
\* failing
LossClients == 2
LossFrames == 2

LossNext ==
    \E size \in RtpFrameSizes :
       \E fail_at \in [RtspSlots -> 0 .. PacketsOf(size)] :
          /\ \A i \in RtspSlots \ PlayingSlots : fail_at[i] = 0
          /\ RtspSendFrame(size, fail_at, LossFrames)

SpecLoss == StreamingInit(LossClients) /\ [][LossNext]_vars

-----------------------------------------------------------------------------
(* Stopping: mavlink_telemetry_stop, rtsp_server_stop of the MJPEG server,    *)
(* rtsp_server_stop of the RTSP server, and how each task leaves its loop     *)

MAVLINK_STATE_STOPPED == "STOPPED"

\* mavlink_telemetry_stop up to its vTaskDelay: tasks_running = false
BridgeStop ==
    /\ state # MAVLINK_STATE_STOPPED /\ pumps.tasks_running
    /\ pumps' = [pumps EXCEPT !.tasks_running = FALSE]
    /\ UNCHANGED <<parser, msg, raw_packet, gcs_clients, stats, state, heartbeat,
                   last_cleanup, now_ms, udp_out, uart_out, frames_in, pending,
                   rx_trace, results, delivered, crc_extra_cnt, pkt_start, ok_log,
                   reads, senders>>
    /\ UNCHANGED <<relayVars, mjpegVars, rtspVars, usbVars, taskVars>>

\* mavlink_telemetry_stop after the 200 ms: the socket closed, state STOPPED
BridgeStopped ==
    /\ state # MAVLINK_STATE_STOPPED /\ ~pumps.tasks_running
    /\ state' = MAVLINK_STATE_STOPPED
    /\ UNCHANGED <<parser, msg, raw_packet, gcs_clients, stats, heartbeat,
                   last_cleanup, now_ms, udp_out, uart_out, frames_in, pending,
                   rx_trace, results, delivered, crc_extra_cnt, pkt_start, ok_log,
                   reads, senders, pumps>>
    /\ UNCHANGED <<relayVars, mjpegVars, rtspVars, usbVars, taskVars>>

\* uart_rx_task and udp_rx_task: uart_read_bytes returns after 10 ms at the
\* latest and the socket is non-blocking, so each task comes to the test of
\* its while loop, finds tasks_running false and deletes itself
PumpExit(task) ==
    /\ pumps[task] = "loop" /\ ~pumps.tasks_running
    /\ pumps' = [pumps EXCEPT ![task] = "deleted"]
    /\ UNCHANGED <<parser, msg, raw_packet, gcs_clients, stats, state, heartbeat,
                   last_cleanup, now_ms, udp_out, uart_out, frames_in, pending,
                   rx_trace, results, delivered, crc_extra_cnt, pkt_start, ok_log,
                   reads, senders>>
    /\ UNCHANGED <<relayVars, mjpegVars, rtspVars, usbVars, taskVars>>

PumpTasks == {"uart_rx_task", "udp_rx_task"}

\* rtsp_server_stop of the MJPEG server: running = false, every active
\* client's socket closed and its slot freed; the listening socket stays open
MjpegStop ==
    /\ s_server.running
    /\ s_server' = [s_server EXCEPT
                       !.running = FALSE,
                       !.clients = [i \in ClientSlots |-> [@[i] EXCEPT !.active = FALSE]]]
    /\ net' = [c \in 1 .. Len(net) |->
                 IF \E i \in ClientSlots : /\ s_server.clients[i].active
                                           /\ s_server.clients[i].sock = c
                 THEN [net[c] EXCEPT !.open = FALSE, !.closes = @ + 1]
                 ELSE net[c]]
    /\ UNCHANGED strm
    /\ UNCHANGED <<bridgeVars, relayVars, rtspVars, usbVars, taskVars>>

\* line 95: client_stream_task finds client->active or s_server.running false
StrmExit(i) ==
    /\ strm[i].pc = "loop"
    /\ ~(s_server.clients[i].active /\ s_server.running)
    /\ strm' = [strm EXCEPT ![i].pc = "cleanup"]
    /\ UNCHANGED <<s_server, net>>
    /\ UNCHANGED <<bridgeVars, relayVars, rtspVars, usbVars, taskVars>>

\* a send() on a descriptor that was closed fails
SendsOn(i, allowed) ==
    LET c == s_server.clients[i].sock
    IN  IF c \in DOMAIN net /\ ~net[c].open THEN {"fail"} ELSE allowed

\* client_stream_task of slot i with the exit of its loop
stopping_stream_task(i) ==
    \/ \E result \in SendsOn(i, HeaderResults) : StrmStart(i, result)
    \/ \E result \in SendsOn(i, HeaderResults) : StrmSendHeader(i, result)
    \/ \E result \in SendsOn(i, SendResults) : StrmSendData(i, result)
    \/ \E result \in SendsOn(i, HeaderResults) : StrmSendTerm(i, result)
    \/ StrmExit(i)
    \/ StrmCleanup(i)

\* the MJPEG server from start to rtsp_server_stop: CloseConns connections of
\* every kind, task creation that may fail, writes that may fail, one frame
CloseConns == 2
CloseFrames == 1

CloseNext ==
    \/ accept_task(CloseConns)
    \/ \E i \in ClientSlots : stopping_stream_task(i)
    \/ ServerSendFrame(FbBytes(s_server.frame_seq + 1, 1), CloseFrames)
    \/ MjpegStop

SpecClose == Init /\ [][CloseNext]_vars

\* rtsp_server_stop of the RTSP server up to its vTaskDelay
RtspStop ==
    /\ s_rtsp.initialized /\ s_rtsp.state = RTSP_SERVER_STATE_RUNNING
    /\ s_rtsp.task_running
    /\ s_rtsp' = [s_rtsp EXCEPT !.task_running = FALSE]
    /\ UNCHANGED <<rtsp_srv, rtsp_net>>
    /\ UNCHANGED <<bridgeVars, relayVars, mjpegVars, usbVars, taskVars>>

\* rtsp_server_stop after the 200 ms: cleanup_client on every slot, the
\* listening socket closed, state STOPPED
RtspStopped ==
    /\ s_rtsp.state = RTSP_SERVER_STATE_RUNNING /\ ~s_rtsp.task_running
    /\ s_rtsp' = [s_rtsp EXCEPT
                     !.clients = [i \in RtspSlots |-> cleanup_client(@[i])],
                     !.state = RTSP_SERVER_STATE_STOPPED]
    /\ rtsp_net' = [c \in 1 .. Len(rtsp_net) |->
                      IF \E i \in RtspSlots : s_rtsp.clients[i].rtsp_socket = c
                      THEN ClosedBy(rtsp_net[c],
                                    s_rtsp.clients[CHOOSE i \in RtspSlots :
                                                      s_rtsp.clients[i].rtsp_socket = c])
                      ELSE rtsp_net[c]]
    /\ UNCHANGED rtsp_srv
    /\ UNCHANGED <<bridgeVars, relayVars, mjpegVars, usbVars, taskVars>>

\* line 475 and line 592: select() returns after 100 ms at the latest, the
\* task finds task_running false and deletes itself
RtspExit ==
    /\ rtsp_srv.pc = "select" /\ ~s_rtsp.task_running
    /\ rtsp_srv' = [rtsp_srv EXCEPT !.pc = "deleted"]
    /\ UNCHANGED <<s_rtsp, rtsp_net>>
    /\ UNCHANGED <<bridgeVars, relayVars, mjpegVars, usbVars, taskVars>>

\* the three components running, each with a few peers, and stopped at any
\* moment; a peer may still connect to the MJPEG server after the stop
StopConns == 1
StopFrames == 1

StopNext ==
    \/ BridgeStop \/ BridgeStopped
    \/ \E task \in PumpTasks : PumpExit(task)
    \/ \E req \in Requests : Accept(req, TRUE, StopConns)
    \/ \E i \in ClientSlots : stopping_stream_task(i)
    \/ \E len \in CaptureSizes :
          ServerSendFrame(FbBytes(s_server.frame_seq + 1, len), StopFrames)
    \/ MjpegStop
    \/ RtspAccept(StopConns)
    \/ \E i \in RtspSlots : RtspClosed(i)
    \/ \E i \in RtspSlots :
          RtspRecv(i, Request("TEARDOWN", "none", NextCSeq(i)), TRUE, 0, StopConns)
    \/ RtspCleanup
    \/ RtspStop \/ RtspStopped \/ RtspExit

\* every task is scheduled again and again (each loop sleeps or waits with a
\* timeout), and a stop call goes on after its delay; nothing is assumed of
\* the peers or of who calls stop
StopFair ==
    /\ \A task \in PumpTasks : WF_vars(PumpExit(task))
    /\ WF_vars(BridgeStopped)
    /\ \A i \in ClientSlots : WF_vars(stopping_stream_task(i))
    /\ WF_vars(RtspCleanup \/ RtspExit)
    /\ WF_vars(RtspStopped)

SpecStop == Init /\ [][StopNext]_vars /\ StopFair

-----------------------------------------------------------------------------
(* The USB capture module of usb_camera.c: uvc_frame_callback fills the      *)
(* frame buffers in turn and queues a pointer to each, stream_task hands the  *)
(* queued frames to the frame callback                                        *)

usb_frame_capacity == 2
UsbCaptures == 5

\* the lengths of the frames the UVC driver delivers
UsbLens == {0, 1, usb_frame_capacity, usb_frame_capacity + 1}

\* lines 218-255: the frame goes to the buffer current_frame_idx names, whose
\* own sequence field is incremented (a uint32_t, far from wrapping here);
\* xQueueSend with no wait drops the pointer when the queue is full
uvc_frame_callback(cam, data_len) ==
    IF data_len = 0 \/ data_len > usb_frame_capacity THEN cam
    ELSE LET i == cam.current_frame_idx
         IN  [cam EXCEPT
                 !.frames[i] = [size |-> data_len,
                                sequence |-> cam.frames[i].sequence + 1],
                 !.frame_queue = IF Len(@) < FRAME_BUFFER_COUNT THEN Append(@, i) ELSE @,
                 !.current_frame_idx = (@ + 1) % FRAME_BUFFER_COUNT,
                 !.stored = @ + 1]

\* the driver calls uvc_frame_callback with a frame of data_len bytes, at
\* most limit frames being stored (frame_mutex is free: usb_camera_get_frame,
\* its only other taker, is not called by a program that sets frame_callback)
UvcFrame(data_len, limit) ==
    /\ s_usb_cam.stored < limit
    /\ s_usb_cam' = uvc_frame_callback(s_usb_cam, data_len)
    /\ UNCHANGED usb_frames
    /\ UNCHANGED <<bridgeVars, relayVars, mjpegVars, rtspVars, taskVars>>

\* lines 156-162 of stream_task: a pointer received from the queue, and
\* frame_callback called with it; the callback reads the buffer as it is then
UsbDeliver ==
    /\ s_usb_cam.frame_queue # <<>>
    /\ \E i \in {Head(s_usb_cam.frame_queue)} :
          usb_frames' = Append(usb_frames,
                               [slot |-> i,
                                size |-> s_usb_cam.frames[i].size,
                                sequence |-> s_usb_cam.frames[i].sequence])
    /\ s_usb_cam' = [s_usb_cam EXCEPT !.frame_queue = Tail(@)]
    /\ UNCHANGED <<bridgeVars, relayVars, mjpegVars, rtspVars, taskVars>>

UsbNext ==
    \/ \E data_len \in UsbLens : UvcFrame(data_len, UsbCaptures)
    \/ UsbDeliver

SpecUsb == Init /\ [][UsbNext]_vars

-----------------------------------------------------------------------------
(* Frames that do not fit: camera_task with captures larger than              *)
(* s_frame_buffer, and rtsp_server_send_frame of the MJPEG server called      *)
(* with frames larger than frame_buf; nobody else asks for either mutex       *)

OversizeCaptures == 2
OversizeCalls == 2

\* the lengths of the frames: the smallest, and one byte more than each buffer
OversizeLens == {1, s_frame_buffer_size, s_frame_buffer_size + 1,
                 frame_buf_capacity, frame_buf_capacity + 1}

\* rtsp_server_send_frame called with a frame of its caller's own, the k-th
\* such call carrying the bytes FbBytes(k, len); relay_log keeps the call
PublishFrame(len) ==
    /\ s_server.frame_mutex = NoTask \/ len > frame_buf_capacity
    /\ \E k \in {Cardinality({j \in DOMAIN relay_log : relay_log[j].op = "call"}) + 1} :
         /\ k <= OversizeCalls
         /\ \E r \in {mjpeg_server_send_frame(s_server, FbBytes(k, len), len)} :
               /\ s_server' = r.srv
               /\ relay_log' = Append(relay_log,
                                      Event("call", k, [NoMsg EXCEPT !.size = len],
                                            FbBytes(k, len), r.ret = "ESP_OK"))
    /\ UNCHANGED <<s_frame_queue, s_frame_buffer, s_frame_mutex, s_frames_captured,
                   s_frames_sent, camera, stream_tx>>
    /\ UNCHANGED <<strm, net>>
    /\ UNCHANGED <<bridgeVars, rtspVars, usbVars, taskVars>>

OversizeNext ==
    \/ \E len \in OversizeLens : s_frames_captured < OversizeCaptures /\ CameraGet(len)
    \/ CameraTake
    \/ CameraCopy
    \/ CameraOverwrite
    \/ \E len \in OversizeLens : PublishFrame(len)

SpecOversize == Init /\ [][OversizeNext]_vars

-----------------------------------------------------------------------------
(* Claims about the framer, checked under SpecFramer *)

Fed == Len(rx_trace)

SameFields(d, f) ==
    /\ d.payload = f.payload
    /\ d.msgid = f.msgid
    /\ d.sysid = f.sysid
    /\ d.compid = f.compid

\* C1: a well-formed v1 or v2 frame fed byte by byte from Idle gives
\* MAVLINK_FRAMING_INCOMPLETE for every byte but the last, MAVLINK_FRAMING_OK on
\* the last byte, and the delivered message carries the frame's payload,
\* message ID, system ID and component ID.
C1_ValidFrameDelivered ==
    (frames_in[1].flip = 0 /\ Fed = WireLen(frames_in[1])) =>
        /\ results = [i \in 1 .. Fed |->
                         IF i = Fed THEN MAVLINK_FRAMING_OK
                                    ELSE MAVLINK_FRAMING_INCOMPLETE]
        /\ Len(delivered) = 1
        /\ SameFields(delivered[1], frames_in[1])

\* C2: two valid frames back to back give exactly two MAVLINK_FRAMING_OK, one
\* on the last byte of each frame, each delivering its own frame's fields.
C2_TwoFramesTwoDeliveries ==
    (/\ Len(frames_in) = 2
     /\ frames_in[1].flip = 0
     /\ frames_in[2].flip = 0
     /\ pending = <<>>) =>
        LET n1 == WireLen(frames_in[1])
            n2 == WireLen(frames_in[2])
        IN  /\ {i \in 1 .. Fed : results[i] = MAVLINK_FRAMING_OK} = {n1, n1 + n2}
            /\ Len(delivered) = 2
            /\ delivered[1].at = n1 /\ SameFields(delivered[1], frames_in[1])
            /\ delivered[2].at = n1 + n2 /\ SameFields(delivered[2], frames_in[2])

\* C3: a frame with one flipped payload byte gives MAVLINK_FRAMING_BAD_CRC on
\* its last byte and never MAVLINK_FRAMING_OK, delivers nothing, and leaves the
\* parser in Idle, so that the start marker that follows begins a new frame.
C3_FlippedFrameRejected ==
    LET n1 == WireLen(frames_in[1])
    IN  (frames_in[1].flip > 0 /\ Fed >= n1) =>
            /\ results[n1] = MAVLINK_FRAMING_BAD_CRC
            /\ \A i \in 1 .. n1 : results[i] # MAVLINK_FRAMING_OK
            /\ \A k \in 1 .. Len(delivered) : delivered[k].at > n1
            /\ Fed = n1 => parser.state = MAVLINK_PARSE_STATE_IDLE
            /\ Fed = n1 + 1 => /\ parser.state = MAVLINK_PARSE_STATE_GOT_STX
                               /\ pkt_start = n1 + 1

\* C4: whenever the received checksum is about to be compared with the running
\* CRC, crc_extra has been mixed into the running CRC exactly once since the
\* frame's start marker, for every payload length (0 included), v1 and v2.
C4_CrcExtraMixedOnce ==
    parser.state = MAVLINK_PARSE_STATE_GOT_CRC1 => crc_extra_cnt = 1

\* C5: in a v2 frame with payload length L the 10 header bytes are followed by
\* exactly L stored payload bytes, payload[0 .. L-1] in wire order, and the two
\* bytes after them are taken as checksum low and high.
C5_V2PayloadThenChecksum ==
    LET f == frames_in[1]
    IN  f.magic = MAVLINK_STX_V2 =>
            /\ Fed = 10 + f.len =>
                  /\ parser.msg.msgid = f.msgid
                  /\ parser.packet_idx = f.len
                  /\ \A i \in 1 .. f.len :
                        PayloadGet(parser.msg.payload, i - 1) = WirePayload(f)[i]
            /\ Fed = 12 + f.len => parser.msg.checksum = FrameCrc(f)

-----------------------------------------------------------------------------
(* Claims about the pumps and the peer table *)

ActiveSlots == {i \in Slots : gcs_clients[i].active}

Tracked(clients, a) == \E i \in Slots : clients[i].active /\ clients[i].addr = a

\* the datagrams that the frames of ok_log amount to: each frame once to each
\* peer active when it was validated, frame after frame
RECURSIVE Broadcasts(_)
Broadcasts(log) ==
    IF log = <<>> THEN <<>>
    ELSE [k \in 1 .. Len(log[1].peers) |-> [to |-> log[1].peers[k], data |-> log[1].frame]]
         \o Broadcasts(Tail(log))

\* C6: what the serial pump sends to the GCS peers is exactly, in order, the
\* wire bytes of each frame that ended in MAVLINK_FRAMING_OK (start marker
\* through checksum high byte), once per peer active at that moment; noise
\* before a start marker and frames that ended in MAVLINK_FRAMING_BAD_CRC are
\* never sent, and parse_errors counts the bad checksums.
C6_OnlyValidatedFramesForwarded ==
    /\ udp_out = Broadcasts(ok_log)
    /\ \A n \in 1 .. Len(ok_log) :
          ok_log[n].frame[1] \in {MAVLINK_STX_V1, MAVLINK_STX_V2}
    /\ stats.parse_errors =
          Cardinality({i \in 1 .. Len(results) : results[i] = MAVLINK_FRAMING_BAD_CRC})

\* C6 witness: noise, a frame, a corrupted frame and a second frame went
\* through the pump while two peers were tracked
C6_Witness ==
    /\ Len(ok_log) >= 2
    /\ Len(ok_log[1].peers) >= 2
    /\ ok_log[1].frame = GoodA
    /\ ok_log[2].frame = GoodB
    /\ stats.parse_errors >= 1
    /\ rx_trace[1] = 85
    /\ Len(udp_out) >= 4

\* C7: every datagram received is written to the serial port byte for byte, in
\* the order received, whether or not its sender could be tracked.
C7_DatagramsReachSerialInOrder ==
    uart_out = [n \in 1 .. Len(senders) |-> Datagram(senders[n], n)]

\* C7 witness: five datagrams arrived, the last from a sender the full table
\* could not track
C7_Witness ==
    /\ Len(senders) >= MAVLINK_MAX_GCS_CLIENTS + 1
    /\ ~Tracked(gcs_clients, Endpoint(senders[Len(senders)]))
    /\ Len(uart_out) = Len(senders)

NoDuplicatePeers ==
    \A i, j \in Slots :
        (gcs_clients[i].active /\ gcs_clients[j].active
         /\ gcs_clients[i].addr = gcs_clients[j].addr) => i = j

\* a datagram step and the address it came from
DatagramStep == senders' # senders
DatagramFrom == Endpoint(senders'[Len(senders')])

\* the step changed nothing but last_seen and messages_received of slot i
OnlyRefreshed(i) ==
    gcs_clients' = [gcs_clients EXCEPT
                       ![i].last_seen = now_ms,
                       ![i].messages_received = gcs_clients[i].messages_received + 1]

\* C8: no two active entries have the same (address, port); a datagram from a
\* tracked address only refreshes that entry's last-seen time and received
\* counter, and one from an untracked address takes at most one new entry
\* (exactly one while a slot is free).
C8_OneEntryPerPeer ==
    /\ []NoDuplicatePeers
    /\ [][DatagramStep =>
            IF Tracked(gcs_clients, DatagramFrom)
            THEN \E i \in Slots : /\ gcs_clients[i].active
                                  /\ gcs_clients[i].addr = DatagramFrom
                                  /\ OnlyRefreshed(i)
            ELSE LET new == {i \in Slots : gcs_clients'[i] # gcs_clients[i]}
                 IN  /\ Cardinality(new) =
                           IF Cardinality(ActiveSlots) < MAVLINK_MAX_GCS_CLIENTS
                           THEN 1 ELSE 0
                     /\ \A i \in new : /\ ~gcs_clients[i].active
                                       /\ gcs_clients'[i].active
                                       /\ gcs_clients'[i].addr = DatagramFrom]_vars

\* C8 witness: a peer was tracked, evicted by the sweep and tracked again, and
\* a tracked peer sent a second datagram
C8_Witness ==
    /\ \E i \in Slots : gcs_clients[i].active /\ gcs_clients[i].messages_received >= 2
    /\ \E i, j \in Slots : /\ i # j
                           /\ ~gcs_clients[i].active
                           /\ gcs_clients[j].active
                           /\ gcs_clients[i].addr = gcs_clients[j].addr

\* slot i holds a peer that has been silent for longer than the timeout
Stale(i) ==
    /\ gcs_clients[i].active
    /\ now_ms - gcs_clients[i].last_seen > GCS_TIMEOUT_MS

\* C9: a tracked peer that stays silent for more than 30 s is eventually
\* removed by the sweep of the serial pump (as long as the clock of the model
\* can still advance), and a frame is only ever sent to an address that is
\* tracked when the frame is validated, so never to a removed peer.
C9_SilentPeerEvicted ==
    /\ \A i \in Slots :
          (Stale(i) /\ now_ms + TickMs <= SweepMaxTime) ~> ~Stale(i)
    /\ [][\A n \in Len(udp_out) + 1 .. Len(udp_out') :
             Tracked(gcs_clients, udp_out'[n].to)]_vars

\* C9 witness: a peer went stale less than 5 s after a sweep, was removed by
\* the next sweep, and a frame validated after that went to the peer still
\* tracked and not to the removed one
C9_Witness ==
    \E i \in Slots :
        /\ gcs_clients[i].last_seen + GCS_TIMEOUT_MS + SmallTickMs + TickMs = now_ms
        /\ ~gcs_clients[i].active
        /\ gcs_clients[i].addr # NoAddr
        /\ now_ms - gcs_clients[i].last_seen > GCS_TIMEOUT_MS
        /\ ok_log # <<>>
        /\ Len(ok_log[Len(ok_log)].peers) = 1
        /\ ok_log[Len(ok_log)].peers[1] # gcs_clients[i].addr
        /\ udp_out[Len(udp_out)].to # gcs_clients[i].addr
        /\ gcs_clients[i].messages_sent = 0

\* C10: at most MAVLINK_MAX_GCS_CLIENTS entries are active, and a datagram
\* from an address that is not in a full table leaves every entry as it was.
C10_FullTableUntouched ==
    /\ [](Cardinality(ActiveSlots) <= MAVLINK_MAX_GCS_CLIENTS)
    /\ [][(/\ DatagramStep
           /\ Cardinality(ActiveSlots) = MAVLINK_MAX_GCS_CLIENTS
           /\ ~Tracked(gcs_clients, DatagramFrom)) =>
              gcs_clients' = gcs_clients]_vars

\* C10 witness: the table is full and the latest datagram came from an address
\* that is not in it
C10_Witness ==
    /\ Cardinality(ActiveSlots) = MAVLINK_MAX_GCS_CLIENTS
    /\ senders # <<>>
    /\ ~Tracked(gcs_clients, Endpoint(senders[Len(senders)]))
    /\ stats.gcs_clients = MAVLINK_MAX_GCS_CLIENTS

-----------------------------------------------------------------------------
(* Claims about the heartbeat *)

\* the fields of a frame as they are on the wire
WireHeaderLen(f) == IF f[1] = MAVLINK_STX_V2 THEN 10 ELSE 6
WireMsgId(f) ==
    IF f[1] = MAVLINK_STX_V2 THEN f[8] + 256 * f[9] + 65536 * f[10] ELSE f[6]
WireSysId(f) == IF f[1] = MAVLINK_STX_V2 THEN f[6] ELSE f[4]
WireCompId(f) == IF f[1] = MAVLINK_STX_V2 THEN f[7] ELSE f[5]
\* payload byte i (from 0) of the frame; 0 where the payload has no such byte
WireByte(f, i) == IF i < f[2] THEN f[WireHeaderLen(f) + 1 + i] ELSE 0

\* the accepted frames that are heartbeats
HeartbeatsSeen == {n \in 1 .. Len(ok_log) : WireMsgId(ok_log[n].frame) = 0}

\* what HeartbeatInfo has to say after the accepted frame e
HeartbeatSaid(e) ==
    [system_id |-> WireSysId(e.frame), component_id |-> WireCompId(e.frame),
     type |-> WireByte(e.frame, 4), autopilot |-> WireByte(e.frame, 5),
     base_mode |-> WireByte(e.frame, 6),
     custom_mode |-> [lo16 |-> WireByte(e.frame, 0) + 256 * WireByte(e.frame, 1),
                      hi16 |-> WireByte(e.frame, 2) + 256 * WireByte(e.frame, 3)],
     system_status |-> WireByte(e.frame, 7),
     last_heartbeat_time |-> e.time]

\* C11: HeartbeatInfo is as initialised until the serial pump accepts a frame
\* with message ID 0, and from then on it holds the system ID, component ID and
\* payload fields (custom mode little-endian) of the latest such frame and the
\* time it was received; frames with other message IDs do not change it.
C11_HeartbeatInfoFromLatestHeartbeat ==
    heartbeat = IF HeartbeatsSeen = {} THEN InitHeartbeat
                ELSE HeartbeatSaid(ok_log[CHOOSE n \in HeartbeatsSeen :
                                             \A k \in HeartbeatsSeen : k <= n])

-----------------------------------------------------------------------------
(* Claims about the frame relay                                              *)

LogIdx(op) == {k \in DOMAIN relay_log : relay_log[k].op = op}
Before(S, k) == {j \in S : j < k}
Latest(S) == CHOOSE j \in S : \A l \in S : l <= j

\* the publish a consume at position k took: the latest one before it
PublishOf(k) == Latest(Before(LogIdx("publish"), k))
\* the consume whose message the send at position k carried
ConsumeOf(k) == Latest(Before(LogIdx("consume"), k))

\* C12: the relay holds at most one pending frame; a consume yields the
\* message of the latest publish before it, so a frame overwritten before it
\* was consumed is never delivered, and a second consume needs a new publish
\* (otherwise it times out); what the sender then hands on carries that
\* publish's size, dimensions, sequence and bytes.
C12_ConsumeYieldsLatestPublish ==
    /\ Len(s_frame_queue) <= 1
    /\ \A k \in LogIdx("consume") :
          /\ Before(LogIdx("publish"), k) # {}
          /\ relay_log[k].msg = relay_log[PublishOf(k)].msg
          /\ \A j \in Before(LogIdx("consume"), k) : j < PublishOf(k)
    /\ \A k \in LogIdx("send") :
          /\ relay_log[k].msg = relay_log[PublishOf(ConsumeOf(k))].msg
          /\ relay_log[k].bytes = relay_log[PublishOf(ConsumeOf(k))].bytes

\* publishes that overwrote a message not yet received
Drops == Cardinality({k \in LogIdx("publish") : relay_log[k].flag})

\* C13: the relay keeps a drop counter: one of its counters (main.c keeps
\* s_frames_captured and s_frames_sent) equals the number of publishes that
\* overwrote a frame not yet consumed.
C13_DropCounterCountsOverwrites ==
    \E counter \in {s_frames_captured, s_frames_sent} : counter = Drops

\* C14: a publish is never abandoned because another task holds the frame
\* lock: camera_task never gives up a captured frame on s_frame_mutex, and
\* rtsp_server_send_frame never gives up a frame on frame_mutex.
C14_PublishNeverAbandoned ==
    /\ LogIdx("abandoned") = {}
    /\ LogIdx("send_timeout") = {}

-----------------------------------------------------------------------------
(* Claims about the MJPEG server                                             *)

ActiveClients == {i \in ClientSlots : s_server.clients[i].active}

\* the step is a round of accept_task for a connection that sent a GET line
\* while every slot was taken
AcceptedWhenFull ==
    /\ Len(net') = Len(net) + 1
    /\ net'[Len(net')].req = "GET"
    /\ ActiveClients = ClientSlots

\* the frame parts written to connection c
PartsOf(c) == {k \in DOMAIN net[c].out : net[c].out[k].kind = "data"}

\* C15: with all MAX_CLIENTS slots taken, a further connection that sends a GET
\* line gets "503 Service Unavailable" and is closed without a slot; the
\* connected clients keep their slots, their open sockets and their running
\* delivery tasks; never more than MAX_CLIENTS are active.
C15_BusyWhenFull ==
    /\ [](/\ Cardinality(ActiveClients) <= MAX_CLIENTS
          /\ \A i \in ActiveClients :
                /\ strm[i].pc \in {"start", "loop", "send_data", "send_term"}
                /\ net[s_server.clients[i].sock].open)
    /\ [][AcceptedWhenFull =>
            /\ net'[Len(net')].out = <<Item("503", 0, <<>>, 0)>>
            /\ ~net'[Len(net')].open
            /\ SubSeq(net', 1, Len(net)) = net
            /\ s_server' = s_server
            /\ strm' = strm]_vars

\* a connection was turned away with 503 while the four slots were taken,
\* and all four clients have been sent a frame
C15_Witness ==
    /\ ActiveClients = ClientSlots
    /\ \E c \in DOMAIN net :
          /\ net[c].req = "GET"
          /\ net[c].out = <<Item("503", 0, <<>>, 0)>>
    /\ \A i \in ClientSlots : PartsOf(s_server.clients[i].sock) # {}

\* C16: within one client's stream the frames come in increasing publish
\* sequence (a part is cut only from a frame_seq other than the last one sent,
\* never an older frame after a newer one), and every part's Content-Length
\* is the number of frame bytes written after it.
C16_PartsInOrderWithTheirLength ==
    \A c \in DOMAIN net :
       /\ \A k, l \in PartsOf(c) : k < l => net[c].out[k].seq < net[c].out[l].seq
       /\ \A k \in PartsOf(c) :
             /\ k > 1
             /\ net[c].out[k - 1].kind = "part_header"
             /\ net[c].out[k - 1].seq = net[c].out[k].seq
             /\ net[c].out[k - 1].len = Len(net[c].out[k].bytes)

\* the step is a failed write of slot i's delivery task
WriteFailed(i) == strm[i].pc # "cleanup" /\ strm'[i].pc = "cleanup"

\* the step is the cleanup of slot i's delivery task
CleanedUp(i) == strm[i].pc = "cleanup" /\ strm'[i].pc = "none"

\* the step leaves every client but slot i's as it was, and the server running
OthersUntouched(i) ==
    /\ \A j \in ClientSlots \ {i} :
          /\ strm'[j] = strm[j]
          /\ s_server'.clients[j] = s_server.clients[j]
    /\ \A c \in DOMAIN net \ {s_server.clients[i].sock} : net'[c] = net[c]
    /\ Len(net') = Len(net)
    /\ s_server'.running = s_server.running
    /\ s_server'.frame_seq = s_server.frame_seq
    /\ s_server'.frame_buf = s_server.frame_buf

\* C17: a failed write (HTTP header, part header, frame bytes, terminator)
\* sends only that client's task to its cleanup; the frame mutex is held by
\* no task outside its send of frame bytes; the cleanup, which waits for
\* nothing, closes that client's socket and frees its slot; the other
\* clients, the frame and the running server are untouched by both steps.
C17_WriteFailureEndsOneClient ==
    /\ [](\A i \in ClientSlots :
             /\ s_server.frame_mutex = StreamTask(i) => strm[i].pc = "send_data"
             /\ strm[i].pc = "cleanup" => ENABLED StrmCleanup(i))
    /\ [][\A i \in ClientSlots :
             /\ WriteFailed(i) =>
                   /\ s_server'.frame_mutex =
                         IF s_server.frame_mutex = StreamTask(i) THEN NoTask
                         ELSE s_server.frame_mutex
                   /\ s_server'.clients[i] = s_server.clients[i]
                   /\ OthersUntouched(i)
             /\ CleanedUp(i) =>
                   /\ ~s_server'.clients[i].active
                   /\ ~net'[s_server.clients[i].sock].open
                   /\ s_server'.frame_mutex = s_server.frame_mutex
                   /\ OthersUntouched(i)]_vars

\* the first viewer's stream ended on a failed write of frame bytes; the
\* second connection was then accepted into the freed slot and was sent a
\* frame
C17_Witness ==
    /\ Len(net) = 2
    /\ ~net[1].open
    /\ net[1].out # <<>>
    /\ net[1].out[Len(net[1].out)].kind = "part_header"
    /\ s_server.clients[0].active
    /\ s_server.clients[0].sock = 2
    /\ PartsOf(2) # {}

-----------------------------------------------------------------------------
(* Claims about the RTSP server                                              *)

\* the slot serving connection c, -1 when it has none
SlotOf(c) ==
    IF \E i \in RtspSlots : s_rtsp.clients[i].active /\ s_rtsp.clients[i].rtsp_socket = c
    THEN CHOOSE i \in RtspSlots :
            s_rtsp.clients[i].active /\ s_rtsp.clients[i].rtsp_socket = c
    ELSE -1

\* the step handles a request with this method on connection c
HandledOn(c, method) ==
    /\ Len(rtsp_net'[c].in) = Len(rtsp_net[c].in) + 1
    /\ rtsp_net'[c].in[Len(rtsp_net'[c].in)].method = method

\* the response written by the step that handled a request on connection c
Answer(c) == rtsp_net'[c].out[Len(rtsp_net'[c].out)]

\* C18: a PLAY received while the client is in Init is answered 455, leaves
\* the client in Init and sends no RTP packet; a client that never left Init
\* is never sent an RTP packet.
C18_PlayBeforeSetupRejected ==
    /\ [](\A c \in DOMAIN rtsp_net :
             rtsp_net[c].trace = <<RTSP_CLIENT_STATE_INIT>> => rtsp_net[c].rtp = <<>>)
    /\ [][\A c \in DOMAIN rtsp_net :
             (/\ HandledOn(c, "PLAY")
              /\ s_rtsp.clients[SlotOf(c)].state = RTSP_CLIENT_STATE_INIT)
             => /\ Answer(c).status = 455
                /\ s_rtsp'.clients[SlotOf(c)].active
                /\ s_rtsp'.clients[SlotOf(c)].state = RTSP_CLIENT_STATE_INIT
                /\ rtsp_net'[c].rtp = rtsp_net[c].rtp
                /\ rtsp_net'[c].trace = rtsp_net[c].trace]_vars

\* a connection sent PLAY as its first request, got 455 and is still in Init
C18_Witness ==
    \E c \in DOMAIN rtsp_net :
       /\ rtsp_net[c].in # <<>>
       /\ rtsp_net[c].in[1].method = "PLAY"
       /\ rtsp_net[c].out[1].status = 455
       /\ SlotOf(c) # -1
       /\ s_rtsp.clients[SlotOf(c)].state = RTSP_CLIENT_STATE_INIT

Prefix(seq, n) == SubSeq(seq, 1, n)

\* connection c has sent SETUP with a client_port, PLAY, TEARDOWN, or the
\* first of them so far, and the RTP socket could be made
PlainSession(c) ==
    /\ Len(rtsp_net[c].in) <= 3
    /\ [k \in DOMAIN rtsp_net[c].in |-> rtsp_net[c].in[k].method]
          = Prefix(<<"SETUP", "PLAY", "TEARDOWN">>, Len(rtsp_net[c].in))
    /\ rtsp_net[c].in # <<>> =>
          /\ rtsp_net[c].in[1].transport = "client_port"
          /\ rtsp_net[c].udp # <<>>

\* C19: a client that sends SETUP (Transport with client_port), PLAY and
\* TEARDOWN goes through Init, Ready, Playing, Teardown in this order, one
\* state per request, each request answered 200; after the TEARDOWN the
\* server task releases the slot and closes the connection before it does
\* anything else.
C19_SetupPlayTeardown ==
    \A c \in DOMAIN rtsp_net :
       PlainSession(c) =>
          /\ rtsp_net[c].trace =
                Prefix(<<RTSP_CLIENT_STATE_INIT, RTSP_CLIENT_STATE_READY,
                         RTSP_CLIENT_STATE_PLAYING, RTSP_CLIENT_STATE_TEARDOWN>>,
                       Len(rtsp_net[c].in) + 1)
          /\ \A k \in DOMAIN rtsp_net[c].out : rtsp_net[c].out[k].status = 200
          /\ SlotOf(c) # -1 =>
                s_rtsp.clients[SlotOf(c)].state = rtsp_net[c].trace[Len(rtsp_net[c].trace)]
          /\ Len(rtsp_net[c].in) = 3 =>
                \/ rtsp_srv = [pc |-> "cleanup", slot |-> SlotOf(c)]
                \/ /\ SlotOf(c) = -1
                   /\ ~rtsp_net[c].open

\* a session of SETUP, PLAY, TEARDOWN that was sent a frame while playing has
\* ended and its slot is free
C19_Witness ==
    \E c \in DOMAIN rtsp_net :
       /\ PlainSession(c)
       /\ Len(rtsp_net[c].in) = 3
       /\ rtsp_net[c].rtp # <<>>
       /\ rtsp_srv.pc = "select"
       /\ SlotOf(c) = -1

\* C20: the state of a connected client changes only from Init to Ready on a
\* SETUP answered 200, from Ready to Playing on PLAY, and to Teardown on
\* TEARDOWN; every other request leaves it as it is, and a Playing client is
\* never moved back to Ready.
C20_OnlyDocumentedTransitions ==
    [][\A c \in DOMAIN rtsp_net :
          (/\ SlotOf(c) # -1
           /\ s_rtsp'.clients[SlotOf(c)].active
           /\ s_rtsp'.clients[SlotOf(c)].state # s_rtsp.clients[SlotOf(c)].state)
          => \/ /\ HandledOn(c, "SETUP")
                /\ Answer(c).status = 200
                /\ s_rtsp.clients[SlotOf(c)].state = RTSP_CLIENT_STATE_INIT
                /\ s_rtsp'.clients[SlotOf(c)].state = RTSP_CLIENT_STATE_READY
             \/ /\ HandledOn(c, "PLAY")
                /\ s_rtsp.clients[SlotOf(c)].state = RTSP_CLIENT_STATE_READY
                /\ s_rtsp'.clients[SlotOf(c)].state = RTSP_CLIENT_STATE_PLAYING
             \/ /\ HandledOn(c, "TEARDOWN")
                /\ s_rtsp'.clients[SlotOf(c)].state = RTSP_CLIENT_STATE_TEARDOWN]_vars

\* C21: when an RTSP session has ended (by TEARDOWN, by a recv() that returned
\* 0 or -1, by rtsp_server_disconnect_client or by rtsp_server_stop) its slot
\* is free and every socket opened for it is closed: the control socket and
\* every RTP socket a SETUP on that connection created.
C21_SessionEndClosesSockets ==
    \A c \in DOMAIN rtsp_net :
       SlotOf(c) = -1 =>
          /\ ~rtsp_net[c].open
          /\ \A k \in DOMAIN rtsp_net[c].udp : ~rtsp_net[c].udp[k]

\* the packets sent before the j-th call of send_rtp_frame for connection c
RECURSIVE SentBefore(_, _)
SentBefore(c, j) ==
    IF j <= 1 THEN 0 ELSE rtsp_net[c].frames[j - 1].sent + SentBefore(c, j - 1)

\* the packets the j-th call of send_rtp_frame for connection c sent
Emitted(c, j) ==
    SubSeq(rtsp_net[c].rtp, SentBefore(c, j) + 1,
           SentBefore(c, j) + rtsp_net[c].frames[j].sent)

\* the payload bytes in the first k packets of P
RECURSIVE BytesIn(_, _)
BytesIn(P, k) == IF k = 0 THEN 0 ELSE P[k].len + BytesIn(P, k - 1)

\* C22: a frame of n > 0 bytes sent to a Playing client without a send
\* failure goes out in ceil(n / 1380) packets of at most 1380 payload bytes;
\* each packet's fragment offset is the number of payload bytes in the
\* frame's earlier packets, the payloads are the frame's bytes in order and
\* without a gap, and the marker bit is set on the last packet alone.
C22_FrameCutIntoPackets ==
    \A c \in DOMAIN rtsp_net : \A j \in DOMAIN rtsp_net[c].frames :
       LET n == rtsp_net[c].frames[j].size
           P == Emitted(c, j)
       IN  (n > 0 /\ rtsp_net[c].frames[j].ret = "ESP_OK") =>
              /\ Len(P) = (n + 1379) \div 1380
              /\ \A k \in DOMAIN P :
                    /\ P[k].len \in 1 .. 1380
                    /\ P[k].offset = BytesIn(P, k - 1)
                    /\ P[k].from = BytesIn(P, k - 1)
                    /\ P[k].marker <=> k = Len(P)
              /\ BytesIn(P, Len(P)) = n

\* a frame of 2760 bytes went out in two full packets, and one of 2761 bytes
\* in three
C22_Witness ==
    \E c \in DOMAIN rtsp_net : \E j, l \in DOMAIN rtsp_net[c].frames :
       /\ rtsp_net[c].frames[j].ret = "ESP_OK"
       /\ rtsp_net[c].frames[j].size = 2760
       /\ Len(Emitted(c, j)) = 2
       /\ rtsp_net[c].frames[l].ret = "ESP_OK"
       /\ rtsp_net[c].frames[l].size = 2761
       /\ Len(Emitted(c, l)) = 3

\* C23: the packets of one frame sent to one client all carry the timestamp
\* the client had when the frame was handed to send_rtp_frame, and each next
\* frame handed to that client has a timestamp larger by exactly
\* 90000 / CAM_FPS (mod 2^32) than the frame handed to it before.
C23_TimestampPerFrame ==
    \A c \in DOMAIN rtsp_net : \A j \in DOMAIN rtsp_net[c].frames :
       /\ \A k \in DOMAIN Emitted(c, j) : Emitted(c, j)[k].ts = rtsp_net[c].frames[j].ts
       /\ j > 1 => rtsp_net[c].frames[j].ts =
                      Add32(rtsp_net[c].frames[j - 1].ts, 90000 \div CAM_FPS)

\* C24: any two packets sent consecutively to one client, within a frame or
\* across frames, have sequence numbers that differ by exactly 1 modulo
\* 65536 (handle_setup sets the first one to 0).
C24_SequencePerPacket ==
    \A c \in DOMAIN rtsp_net : \A k \in DOMAIN rtsp_net[c].rtp :
       k > 1 => rtsp_net[c].rtp[k].seq = (rtsp_net[c].rtp[k - 1].seq + 1) % 65536

\* the last call of send_rtp_frame for connection c, in the next state
LastCall(c) == rtsp_net'[c].frames[Len(rtsp_net'[c].frames)]

\* the step called send_rtp_frame for connection c
CalledFor(c) == Len(rtsp_net'[c].frames) = Len(rtsp_net[c].frames) + 1

\* C25: a sendto that fails while a frame is sent to a Playing client leaves
\* the client active and Playing with its control and RTP sockets open; the
\* other Playing clients are sent that frame in the same call; the client is
\* called for again with every later frame.
C25_SendFailureKeepsSession ==
    [][\A i \in PlayingSlots :
          LET c == s_rtsp.clients[i].rtsp_socket
          IN  /\ CalledFor(c)
              /\ LastCall(c).ret = "ESP_FAIL" =>
                    /\ s_rtsp'.clients[i].active
                    /\ s_rtsp'.clients[i].state = RTSP_CLIENT_STATE_PLAYING
                    /\ s_rtsp'.clients[i].rtsp_socket = c
                    /\ s_rtsp'.clients[i].rtp_socket = s_rtsp.clients[i].rtp_socket
                    /\ rtsp_net'[c].open /\ rtsp_net'[c].udp = rtsp_net[c].udp
                    /\ rtsp_net[c].udp[s_rtsp.clients[i].rtp_socket]
                    /\ \A j \in PlayingSlots \ {i} :
                          LET d == s_rtsp.clients[j].rtsp_socket
                          IN  /\ CalledFor(d)
                              /\ LastCall(d).size = LastCall(c).size
                              /\ LastCall(d).ret = "ESP_OK" =>
                                    LastCall(d).sent = PacketsOf(LastCall(d).size)]_vars

\* one client's first frame failed at its second packet while the other
\* client got that frame whole, and both were sent the next frame whole
C25_Witness ==
    /\ Len(rtsp_net) >= 2
    /\ [j \in DOMAIN rtsp_net[1].frames |-> rtsp_net[1].frames[j].ret]
          = <<"ESP_FAIL", "ESP_OK">>
    /\ rtsp_net[1].frames[1].sent = 1
    /\ [j \in DOMAIN rtsp_net[2].frames |-> rtsp_net[2].frames[j].ret]
          = <<"ESP_OK", "ESP_OK">>
    /\ rtsp_net[2].frames[1].sent = 2

\* C26: every response on a connection, the error responses included, carries
\* the CSeq value of the request it answers, never that of an earlier request.
C26_ResponseEchoesCSeq ==
    \A c \in DOMAIN rtsp_net : \A k \in DOMAIN rtsp_net[c].out :
       rtsp_net[c].out[k].cseq = rtsp_net[c].in[k].cseq

\* connection c holds a client slot
Connected(c) == c \in DOMAIN rtsp_net /\ SlotOf(c) # -1

\* a stream was started on connection c
Streamed(c) ==
    /\ c \in DOMAIN rtsp_net
    /\ \E k \in DOMAIN rtsp_net[c].trace : rtsp_net[c].trace[k] = RTSP_CLIENT_STATE_PLAYING

\* C27: an accepted connection that never gets to PLAY (its peer sends
\* nothing, or stops before PLAY) is eventually closed by the server and its
\* slot freed: a connection holding a slot leads to the slot being free again
\* or to a stream on that connection.
C27_IdleConnectionClosed ==
    \A c \in 1 .. RtspConns :
       Connected(c) ~> (~Connected(c) \/ Streamed(c))


-----------------------------------------------------------------------------
(* Claims about stopping, checked under SpecStop *)

PumpsLeft == \A task \in PumpTasks : pumps[task] = "deleted"
StreamTasksLeft == \A i \in ClientSlots : strm[i].pc = "none"
AcceptTaskLeft == s_server.accept_task = "deleted"
RtspTaskLeft == rtsp_srv.pc = "deleted"

\* C28: once a stop was requested of a component, every task of that
\* component leaves its loop in the end, whether or not anything more arrives
\* from outside: both pumps after mavlink_telemetry_stop, the accept task and
\* the delivery tasks after the MJPEG rtsp_server_stop, the server task after
\* the RTSP rtsp_server_stop
C28_TasksLeaveAfterStop ==
    /\ ~pumps.tasks_running ~> PumpsLeft
    /\ ~s_server.running ~> (AcceptTaskLeft /\ StreamTasksLeft)
    /\ ~s_rtsp.task_running ~> RtspTaskLeft

-----------------------------------------------------------------------------
(* Claims about frames that do not fit, checked under SpecOversize *)

\* camera_task decided on a capture larger than s_frame_buffer
CameraOversized ==
    /\ camera.pc = "copy" /\ camera.fb.len > s_frame_buffer_size
    /\ camera' # camera

\* rtsp_server_send_frame returned from a call with a frame larger than
\* frame_buf
ServerOversized ==
    /\ Len(relay_log') = Len(relay_log) + 1
    /\ relay_log'[Len(relay_log')].op = "call"
    /\ relay_log'[Len(relay_log')].msg.size > frame_buf_capacity

\* C29: no frame larger than a buffer is ever kept in it: the size kept with
\* the frame slot of the MJPEG server, and the size of the message camera_task
\* queued, never exceed the capacity; a capture larger than s_frame_buffer
\* leaves the buffer, the queue and the sequence counter of camera_task as
\* they were, and a call of rtsp_server_send_frame with a frame larger than
\* frame_buf leaves the bytes, the size and the sequence number of the slot as
\* they were
C29_OversizedFrameDiscarded ==
    /\ [](/\ s_server.frame_size <= frame_buf_capacity
          /\ \A j \in DOMAIN s_frame_queue :
                s_frame_queue[j].size <= s_frame_buffer_size)
    /\ [][CameraOversized =>
             /\ s_frame_buffer' = s_frame_buffer
             /\ s_frame_queue' = s_frame_queue
             /\ camera'.seq = camera.seq
             /\ camera'.pc = "get"]_vars
    /\ [][ServerOversized =>
             /\ s_server'.frame_buf = s_server.frame_buf
             /\ s_server'.frame_size = s_server.frame_size
             /\ s_server'.frame_seq = s_server.frame_seq]_vars

\* both buffers hold a frame, and after that a capture larger than
\* s_frame_buffer was left out and a call with a frame larger than frame_buf
\* was refused
C29_Witness ==
    /\ s_server.frame_size > 0
    /\ \E i, j, k, l \in DOMAIN relay_log :
          /\ i < j /\ relay_log[i].op = "publish" /\ relay_log[j].op = "too_large"
          /\ k < l /\ relay_log[k].op = "call" /\ relay_log[k].flag
          /\ relay_log[l].op = "call" /\ ~relay_log[l].flag
          /\ relay_log[l].msg.size > frame_buf_capacity

-----------------------------------------------------------------------------
(* Claims about the USB capture module, checked under SpecUsb *)

\* C30: the frames handed to frame_callback carry strictly increasing
\* sequence numbers, in the order of the calls
C30_DeliveredSequencesIncrease ==
    \A i, j \in DOMAIN usb_frames :
        i < j => usb_frames[i].sequence < usb_frames[j].sequence

-----------------------------------------------------------------------------
(* Claims about the link state, checked under SpecConn *)

\* C31: mavlink_telemetry_is_pixhawk_connected is true exactly when a
\* heartbeat was decoded from the serial line and less than 3000 ms have
\* passed since the latest one: last_heartbeat_time is set to the time of
\* every step that decodes a heartbeat and is left alone by every other step,
\* and the answer is derived from it and the clock alone, so it turns false
\* when the clock reaches 3000 ms after the latest heartbeat
C31_ConnectedWhileHeartbeatFresh ==
    /\ [](mavlink_telemetry_is_pixhawk_connected(heartbeat, now_ms)
            <=> /\ HeartbeatsSeen # {}
                /\ now_ms - heartbeat.last_heartbeat_time < 3000)
    /\ [][IF \E n \in DOMAIN ok_log' : n > Len(ok_log) /\ WireMsgId(ok_log'[n].frame) = 0
          THEN heartbeat'.last_heartbeat_time = now_ms
          ELSE heartbeat'.last_heartbeat_time = heartbeat.last_heartbeat_time]_vars

\* two heartbeats were decoded at different times, and the clock stands
\* exactly 3000 ms after the second: the link counts as lost
C31_Witness ==
    /\ Cardinality(HeartbeatsSeen) = 2
    /\ heartbeat.last_heartbeat_time = 2 * ConnTickMs
    /\ now_ms - heartbeat.last_heartbeat_time = 3 * ConnTickMs
    /\ ~mavlink_telemetry_is_pixhawk_connected(heartbeat, now_ms)

-----------------------------------------------------------------------------
(* Claims about the framer on long inputs, checked under SpecStream *)

\* C32: a frame attempt is over, with the framer back in Idle, once 267 bytes
\* from its start marker on have been fed: while the framer is not in Idle,
\* fewer than 267 bytes of the attempt have been taken
C32_FramerBackInIdle ==
    parser.state # MAVLINK_PARSE_STATE_IDLE
        => Len(rx_trace) - pkt_start + 1 < 267

-----------------------------------------------------------------------------
(* Claims about the two pumps as concurrent tasks, checked under SpecRace *)

\* C33: every access to the GCS peer table, by any task and in any function,
\* is made while that task holds clients_mutex
C33_PeerTableUnderMutex == \A t \in touches : t.held

\* C34: a step deactivates a peer only if more than 30000 ms have passed since
\* the time recorded for its most recent datagram: a peer heard from within
\* the last 30 s is still tracked after the sweep has looked at it
C34_OnlyStalePeersDeactivated ==
    [][\A i \in Slots :
          gcs_clients[i].active /\ ~gcs_clients'[i].active
              => now_ms - gcs_clients[i].last_seen > GCS_TIMEOUT_MS]_vars

\* C37: whenever neither pump is in the middle of an update of the peer table,
\* stats.gcs_clients is the number of active entries, and
\* mavlink_telemetry_is_gcs_connected is true exactly when a peer is tracked
C37_ClientCountMatchesTable ==
    sweep.pc = "loop" /\ udp_rx.pc \in {"recv", "take"}
        => /\ stats.gcs_clients = Cardinality({i \in Slots : gcs_clients[i].active})
           /\ mavlink_telemetry_is_gcs_connected(stats)
                  <=> \E i \in Slots : gcs_clients[i].active

-----------------------------------------------------------------------------
(* Claims about the mutexes of the MJPEG server and of the frame relay *)

\* C35: a client_stream_task whose send() of the frame bytes is in progress
\* does not hold frame_mutex, and another delivery task that has a newer frame
\* to send finds the mutex free
C35_NoSendUnderFrameMutex ==
    \A i \in ClientSlots :
        strm[i].pc = "send_data"
            => /\ s_server.frame_mutex # StreamTask(i)
               /\ \A j \in ClientSlots \ {i} :
                     /\ strm[j].pc = "loop"
                     /\ s_server.clients[j].active
                     /\ s_server.frame_seq # strm[j].last_seq
                     => s_server.frame_mutex = NoTask

\* C36: every frame stream_sender_task hands to rtsp_server_send_frame is one
\* capture: its size, width, height and sequence number are those of a frame
\* camera_task published, and the bytes read from s_frame_buffer are the bytes
\* of that same capture
C36_SentFrameIsOneCapture ==
    \A k \in DOMAIN relay_log :
        relay_log[k].op = "send"
            => \E j \in 1 .. k - 1 :
                  /\ relay_log[j].op = "publish"
                  /\ relay_log[j].msg = relay_log[k].msg
                  /\ relay_log[j].bytes = relay_log[k].bytes

-----------------------------------------------------------------------------
(* Claims about frames sent while requests are handled, checked under SpecBcast *)

\* C38: every RTP packet goes to a client that is in state Playing when the
\* packet is sent (none after its TEARDOWN was answered), and while a frame is
\* being sent to a client no step of rtsp_server_task changes that client's
\* state, RTP socket or sequence counter
C38_PacketsOnlyWhilePlaying ==
    /\ [](\A k \in DOMAIN rtp_tx.sent :
             rtp_tx.sent[k].state = RTSP_CLIENT_STATE_PLAYING)
    /\ [][rtp_tx.pc = "packet" /\ rtp_tx' = rtp_tx
             => /\ s_rtsp'.clients[rtp_tx.i].state = s_rtsp.clients[rtp_tx.i].state
                /\ s_rtsp'.clients[rtp_tx.i].rtp_socket
                      = s_rtsp.clients[rtp_tx.i].rtp_socket
                /\ s_rtsp'.clients[rtp_tx.i].rtp_sequence
                      = s_rtsp.clients[rtp_tx.i].rtp_sequence]_vars

-----------------------------------------------------------------------------
(* Claims about the sockets of the MJPEG server, checked under SpecClose *)

\* a delivery task is alive on connection c
Served(c) ==
    \E i \in ClientSlots : s_server.clients[i].sock = c /\ strm[i].pc # "none"

\* C39: close() is called at most once on every accepted socket, and exactly
\* once on every socket that no delivery task is serving any more
C39_SocketClosedExactlyOnce ==
    \A c \in DOMAIN net :
        /\ net[c].closes <= 1
        /\ ~Served(c) => net[c].closes = 1

-----------------------------------------------------------------------------
(* Claims about the buffers of the serial pump, checked under SpecLong *)

\* C40: whatever the line delivers, no payload byte is stored at index 255 or
\* above (payload[] keeps at most 255 entries and packet_idx stays a valid
\* count), and raw_packet never holds more than MAVLINK_MAX_PACKET_LEN bytes
C40_BuffersStayInBounds ==
    /\ Len(parser.msg.payload) <= MAVLINK_MAX_PAYLOAD_LEN
    /\ parser.packet_idx <= MAVLINK_MAX_PAYLOAD_LEN
    /\ Len(raw_packet) <= MAVLINK_MAX_PACKET_LEN

\* a frame of 255 payload bytes was taken in full, and the frame attempt after
\* it has filled raw_packet to its last entry
C40_Witness ==
    /\ Len(parser.msg.payload) = MAVLINK_MAX_PAYLOAD_LEN
    /\ Len(raw_packet) = MAVLINK_MAX_PACKET_LEN
    /\ Len(rx_trace) > MAVLINK_MAX_PACKET_LEN + MAVLINK_MAX_PAYLOAD_LEN

====
